---- MODULE Spec2Model ----
(***************************************************************************)
(* A model of playwright-ai-integration: the Playwright MCP driver         *)
(* (src/src/mcp-server.js, both server variants held in that file), the    *)
(* stdio bridge and the prompt orchestrator (src/src/ai-integration.js).   *)
(*                                                                         *)
(* Handlers are async: a handler runs from one await to the next as one    *)
(* step, and steps of different in-flight calls interleave.  Every browser *)
(* call made through Playwright is an external call whose outcome (it      *)
(* resolves, it rejects) is chosen nondeterministically.                   *)
(***************************************************************************)
EXTENDS Naturals, Sequences, FiniteSets, TLC

VARIABLES
  variant,          \* which server of mcp-server.js runs: 1 (lines 9-962) or 2 (lines 972-1390)
  serverUp,         \* the driver process is running and serving its stdio
  browser,          \* this.browser: 0 is null, else the id of a launched browser
  page,             \* this.page: 0 is null, else the id of the browser the page belongs to
  actions,          \* this.actions: the action log
  running,          \* the browsers chromium has launched and that are not closed
  launched,         \* how many browsers chromium.launch has produced so far
  pageUrl,          \* per page, the url it shows
  calls,            \* the tool calls whose handler is suspended at an await, by request id
  stdin,            \* request frames written to the driver and not yet read by it
  stdout,           \* response frames written by the driver and not yet read
  messageId,        \* the last request id handed out (ai-integration.js this.messageId)
  isConnected,      \* ai-integration.js this.isConnected
  browserLaunched,  \* ai-integration.js this.browserLaunched
  listeners,        \* ids whose onData listener is registered on the child's stdout
  timers,           \* ids whose 30 s timer is armed
  prompts,          \* the processPrompt activations, by prompt number
  stderr,           \* the driver's startup line: none (not written), pending, read
  cleaning,         \* ids of the close_browser requests that cleanup activations await
  subscribers,      \* how many 'actionExecuted' listeners the WebSocket handler has registered
  wsOut             \* the messages sent to the WebSocket client, in order

driverVars == <<variant, serverUp, browser, page, actions, running, launched, pageUrl, calls>>
pipeVars == <<stdin, stdout, messageId>>
orchVars ==
  <<isConnected, browserLaunched, listeners, timers, prompts, stderr, cleaning, subscribers,
    wsOut>>
vars == <<driverVars, pipeVars, orchVars>>

-----------------------------------------------------------------------------
(* Bounds of the model. *)

\* requests one run issues in all
MaxCalls == 3
\* requests that may be in flight at the driver at once (client of the driver alone)
MaxInflight == 2
\* browsers chromium.launch may produce in one run
MaxBrowsers == 2
\* processPrompt calls of one run
MaxPrompts == 1
\* requests the orchestrator sends in one run
MaxRequests == 4
\* the longest list of actions supplied to generate_test
MaxLen == 2
\* prompt-processing requests the web server receives in one run
MaxMessages == 2

-----------------------------------------------------------------------------
(* Input values. *)

undefined == "undefined"
\* request.params.arguments missing altogether
NoArgs == [undefined |-> TRUE]
EmptyArgs == [k \in {} |-> undefined]

StartsWith(text, prefix) ==
  Len(text) >= Len(prefix) /\ SubSeq(text, 1, Len(prefix)) = prefix

\* text has sub as a substring
Contains(text, sub) ==
  \E k \in 1..(Len(text) + 1) :
    k + Len(sub) - 1 <= Len(text) /\ SubSeq(text, k, k + Len(sub) - 1) = sub

GithubUrl == "https://github.com/search"
GoogleUrl == "https://www.google.com"
OtherUrl == "https://x.test"
Urls == {GithubUrl, GoogleUrl, OtherUrl}
\* url.includes('github.com') / url.includes('google.com')
\* the url strategy 3 of github_search builds; encodeURIComponent leaves the queries of
\* the model (unreserved characters only) as they are
SearchUrl(query) == "https://github.com/search?q=" \o query
UrlIncludesGithub(url) == Contains(url, "github.com")
UrlIncludesGoogle(url) == Contains(url, "google.com")

CallerSelector == "#go"
\* the selectors that can match an element of a page of the model: a Playwright call on
\* any other selector rejects
PresentSelectors == {CallerSelector, "input[name=\"q\"]"}
TextValue == "quux"
QueryValue == "tla"
FileValue == "out.png"
TestName == "go_to_example"
Description == "go to example"
UnknownTool == "open_tab"

Has(args, k) == args # NoArgs /\ k \in DOMAIN args
\* args.k for an arguments object that exists
Get(args, k) == IF k \in DOMAIN args THEN args[k] ELSE undefined
\* args?.k
GetOpt(args, k) == IF args = NoArgs THEN undefined ELSE Get(args, k)

-----------------------------------------------------------------------------
(* Messages and result envelopes of the driver. *)

BrowserNotLaunched == "Browser not launched. Call launch_browser first."
\* message of the TypeError raised by reading property k of an undefined args
TypeErrorUndefined(k) == "Cannot read properties of undefined (reading '" \o k \o "')"
\* message of the TypeError raised by reading property k of this.page when it is null
TypeErrorNull(k) == "Cannot read properties of null (reading '" \o k \o "')"
\* message of a rejected Playwright call
PlaywrightError == "Target page, context or browser has been closed"
PageTitle == "Title"
PageContentLength == "1256"

Mode(headless) == IF headless = TRUE THEN "headless" ELSE "headed"

Return(text) == [t |-> "return", text |-> text]
Throw(msg) == [t |-> "throw", msg |-> msg]
Await(act) == [t |-> "await", act |-> act]

\* A suspended call (with the args of its request): the tool, its parameters a1 and
\* a2, where it is suspended, the
\* browser or page object p the pending Playwright call was made on, the candidate
\* selectors still to try, all of selectorsToTry, the last error caught and the
\* strategy used.  touched records whether a candidate that failed had changed a field
\* of the page before it failed, waited the milliseconds the call has spent in
\* waitForSelector calls that timed out; no action reads them.
Activation(name, a1, a2, pc, p, sels) ==
  [name |-> name, a1 |-> a1, a2 |-> a2, pc |-> pc, p |-> p, sels |-> sels,
   tried |-> sels, lastError |-> "", used |-> "", touched |-> FALSE, waited |-> 0]

ErrorText(name, msg) == "Error executing " \o name \o ": " \o msg

\* the handler without its try/catch: what the operation throws leaves the handler
CallToolResultUncaught(name, res) ==
  IF res.t = "throw"
  THEN [kind |-> "error", text |-> res.msg, threw |-> TRUE]
  ELSE [kind |-> "result", text |-> res.text, threw |-> FALSE]

\* What the CallToolRequestSchema handler hands to the server for a call that returned
\* or threw res (the catch of lines 254-263): always a result, never a JSON-RPC error.
CallToolResult(name, res) ==
  IF res.t = "throw"
  THEN [kind |-> "result", text |-> ErrorText(name, res.msg), threw |-> TRUE]
  ELSE [kind |-> "result", text |-> res.text, threw |-> FALSE]

\* The response frame of request req.  On the wire go id and the result (kind, text);
\* name, args and threw record the request answered and whether the text comes from
\* the catch, and no action reads them.
Frame(req, res) ==
  [id |-> req.id, name |-> req.name, args |-> req.args] @@ CallToolResult(req.name, res)

-----------------------------------------------------------------------------
(* Script generator (generatePlaywrightTest, convertActionToPlaywrightCode). *)

\* a value used as a condition: undefined, null and '' are falsy
Truthy(rec, k) == k \in DOMAIN rec /\ rec[k] # undefined /\ rec[k] # ""

DefaultFilename == "screenshot.png"
GithubInput == "[data-target=\"query-builder.input\"]"

\* every record translated to the placeholder comment
convertActionToPlaceholder(action) ==
  <<"// Unsupported action: " \o action.name>>

\* the source line of one {name, arguments} record: <<>> is null (no line)
convertActionToPlaywrightCode(action) ==
  LET a == action.arguments IN
  CASE action.name = "launch_browser" -> <<>>
    [] action.name = "navigate_to" -> <<"await page.goto('" \o Get(a, "url") \o "');">>
    [] action.name = "click_element" ->
         <<"await page.click('" \o Get(a, "selector") \o "');">>
    [] action.name = "fill_input" ->
         <<"await page.fill('" \o Get(a, "selector") \o "', '" \o Get(a, "text") \o "');">>
    [] action.name = "wait_for_element" ->
         <<"await page.waitForSelector('" \o Get(a, "selector") \o "');">>
    [] action.name = "take_screenshot" ->
         LET filename == IF Truthy(a, "filename") THEN a.filename ELSE DefaultFilename
         IN <<"await page.screenshot({ path: '" \o filename \o "' });">>
    [] action.name = "github_search" ->
         <<"await page.fill('" \o GithubInput \o "', '" \o Get(a, "query")
           \o "');\n  await page.press('" \o GithubInput \o "', 'Enter');">>
    [] action.name = "inspect_page" -> <<>>
    [] action.name = "get_page_content" -> <<>>
    [] action.name = "close_browser" -> <<>>
    [] OTHER -> <<"// Unsupported action: " \o action.name>>

\* what one record adds to testCode (the body of the forEach, lines 864-876)
ActionLines(action) ==
  IF Truthy(action, "code")
  THEN "  " \o action.code \o "\n"
  ELSE IF Truthy(action, "name") /\ "arguments" \in DOMAIN action
          /\ action.arguments # NoArgs
       THEN LET playwrightCode == convertActionToPlaywrightCode(action)
            IN IF playwrightCode # <<>> THEN "  " \o playwrightCode[1] \o "\n" ELSE ""
       ELSE ""

RECURSIVE BodyLines(_)
BodyLines(acts) ==
  IF acts = <<>> THEN "" ELSE ActionLines(Head(acts)) \o BodyLines(Tail(acts))

ImportLine == "import { test, expect } from '@playwright/test';\n\n"

TestHeader(testName, description) ==
  LET testDescription ==
        IF description # undefined /\ description # "" THEN description ELSE testName
  IN ImportLine \o "test('" \o testDescription \o "', async ({ page }) => {\n"

\* a record equal to the one before it is left out
generatePlaywrightTestDeduplicated(testName, description, acts) ==
  LET n == Len(acts)
      kept == IF n >= 2 /\ acts[n] = acts[n - 1] THEN SubSeq(acts, 1, n - 1) ELSE acts
  IN TestHeader(testName, description) \o BodyLines(kept) \o "});\n"

generatePlaywrightTest(testName, description, acts) ==
  TestHeader(testName, description) \o BodyLines(acts) \o "});\n"

\* second server: every record contributes its code
RECURSIVE CodeLines(_)
CodeLines(acts) ==
  IF acts = <<>> THEN ""
  ELSE "  " \o Get(Head(acts), "code") \o "\n" \o CodeLines(Tail(acts))

generatePlaywrightTest2(testName, description, acts) ==
  TestHeader(testName, description) \o CodeLines(acts) \o "});\n"

\* the script handed back under an announcing line
generateTestAnnounced(testName, description, provided) ==
  LET actionsToUse == IF provided = <<>> THEN actions ELSE provided[1]
  IN Return("Generated Playwright test:\n\n" \o
            generatePlaywrightTest(testName,
              IF description = undefined THEN "" ELSE description, actionsToUse))

\* providedActions || this.actions: null and undefined fall back to the log (an
\* array, even an empty one, is truthy).  provided is <<>> for undefined and
\* <<list>> for a list.
generateTest(testName, description, provided) ==
  LET actionsToUse == IF provided = <<>> THEN actions ELSE provided[1]
  IN Return(generatePlaywrightTest(testName,
              IF description = undefined THEN "" ELSE description, actionsToUse))

generateTest2(testName, description) ==
  Return("Generated Playwright test:\n\n" \o
         generatePlaywrightTest2(testName,
           IF description = undefined THEN "" ELSE description, actions))

-----------------------------------------------------------------------------
(* The driver's operations up to their first await (mcp-server.js). *)

Headless(args) == IF Has(args, "headless") THEN args.headless ELSE FALSE

\* first server, lines 267-294
launchBrowser(headless) ==
  IF browser # 0
  THEN Return("Browser already running in " \o Mode(headless) \o " mode")
  ELSE Await(Activation("launch_browser", headless, undefined, "launch", 0, <<>>))

\* second server, lines 1178-1191: no check of this.browser
launchBrowser2(headless) ==
  Await(Activation("launch_browser", headless, undefined, "launch", 0, <<>>))

navigateTo(url) ==
  IF page = 0 THEN Throw(BrowserNotLaunched)
  ELSE Await(Activation("navigate_to", url, undefined, "goto", page, <<>>))

GithubClickSelectors ==
  << "[data-target=\"query-builder.input\"]", "input[name=\"q\"]", "#query-builder-test",
     "input[placeholder*=\"Search\"]", "input[aria-label*=\"Search\"]",
     "button[type=\"submit\"]", "[data-testid=\"search-button\"]" >>

GithubFillSelectors ==
  << "[data-target=\"query-builder.input\"]", "input[name=\"q\"]", "#query-builder-test",
     "input[placeholder*=\"Search\"]", "input[aria-label*=\"Search\"]" >>

GoogleFillSelectors ==
  << "input[name=\"q\"]", "textarea[name=\"q\"]", "input[title=\"Search\"]" >>

\* the caller's selector tried first
ClickSelectorsCallerFirst(url, selector) ==
  IF UrlIncludesGithub(url) THEN <<selector>> \o GithubClickSelectors ELSE <<selector>>

\* lines 336-342
ClickSelectorsToTry(url, selector) ==
  IF UrlIncludesGithub(url) THEN Append(GithubClickSelectors, selector) ELSE <<selector>>

\* lines 445-453
FillSelectorsToTry(url, selector) ==
  IF UrlIncludesGithub(url) THEN Append(GithubFillSelectors, selector)
  ELSE IF UrlIncludesGoogle(url) THEN Append(GoogleFillSelectors, selector)
  ELSE <<selector>>

\* the timeout of one waitForSelector of clickElement's loop, in milliseconds:
\* Math.min(timeout, 5000) of line 350, timeout being the parameter with its default
\* of line 318 (timeout = 30000)
WaitTimeout(timeout) ==
  LET t == IF timeout = undefined THEN 30000 ELSE timeout
  IN IF t < 5000 THEN t ELSE 5000

clickElement(selector, timeout) ==
  IF page = 0 THEN Throw(BrowserNotLaunched)
  ELSE Await(Activation("click_element", selector, timeout, "candidate", page,
                        ClickSelectorsToTry(pageUrl[page], selector)))

clickElement2(selector) ==
  IF page = 0 THEN Throw(BrowserNotLaunched)
  ELSE Await(Activation("click_element", selector, undefined, "simple", page, <<>>))

fillInput(selector, text) ==
  IF page = 0 THEN Throw(BrowserNotLaunched)
  ELSE Await(Activation("fill_input", selector, text, "candidate", page,
                        FillSelectorsToTry(pageUrl[page], selector)))

fillInput2(selector, text) ==
  IF page = 0 THEN Throw(BrowserNotLaunched)
  ELSE Await(Activation("fill_input", selector, text, "simple", page, <<>>))

waitForElement(selector) ==
  IF page = 0 THEN Throw(BrowserNotLaunched)
  ELSE Await(Activation("wait_for_element", selector, undefined, "simple", page, <<>>))

takeScreenshot(file) ==
  LET filename == IF file = undefined THEN DefaultFilename ELSE file IN
  IF page = 0 THEN Throw(BrowserNotLaunched)
  ELSE Await(Activation("take_screenshot", filename, undefined, "simple", page, <<>>))

githubSearch(query) ==
  IF page = 0 THEN Throw(BrowserNotLaunched)
  ELSE Await(Activation("github_search", query, undefined, "strategy1", page, <<>>))

inspectPage(elementType) ==
  IF page = 0 THEN Throw(BrowserNotLaunched)
  ELSE Await(Activation("inspect_page", elementType, undefined, "simple", page, <<>>))

getPageContent ==
  IF page = 0 THEN Throw(BrowserNotLaunched)
  ELSE Await(Activation("get_page_content", undefined, undefined, "simple", page, <<>>))

closeBrowser ==
  IF browser # 0
  THEN Await(Activation("close_browser", undefined, undefined, "close", browser, <<>>))
  ELSE Return("No browser to close")

\* the switch of the CallToolRequestSchema handler, first server (lines 213-253)
CallTool1(name, args) ==
  CASE name = "launch_browser" -> launchBrowser(Headless(args))
    [] name = "navigate_to" ->
         IF args = NoArgs THEN Throw(TypeErrorUndefined("url"))
         ELSE navigateTo(Get(args, "url"))
    [] name = "click_element" ->
         IF args = NoArgs THEN Throw(TypeErrorUndefined("selector"))
         ELSE clickElement(Get(args, "selector"), Get(args, "timeout"))
    [] name = "fill_input" ->
         IF args = NoArgs THEN Throw(TypeErrorUndefined("selector"))
         ELSE fillInput(Get(args, "selector"), Get(args, "text"))
    [] name = "wait_for_element" ->
         IF args = NoArgs THEN Throw(TypeErrorUndefined("selector"))
         ELSE waitForElement(Get(args, "selector"))
    [] name = "take_screenshot" -> takeScreenshot(GetOpt(args, "filename"))
    [] name = "github_search" ->
         IF args = NoArgs THEN Throw(TypeErrorUndefined("query"))
         ELSE githubSearch(Get(args, "query"))
    [] name = "inspect_page" ->
         inspectPage(IF GetOpt(args, "elementType") \in {undefined, ""}
                     THEN "all" ELSE args.elementType)
    [] name = "get_page_content" -> getPageContent
    [] name = "generate_test" ->
         IF args = NoArgs THEN Throw(TypeErrorUndefined("testName"))
         ELSE generateTest(Get(args, "testName"), Get(args, "description"),
                           IF Has(args, "actions") THEN <<args.actions>> ELSE <<>>)
    [] name = "close_browser" -> closeBrowser
    [] OTHER -> Throw("Unknown tool: " \o name)

\* the switch of the second server (lines 1134-1164)
CallTool2(name, args) ==
  CASE name = "launch_browser" -> launchBrowser2(Headless(args))
    [] name = "navigate_to" ->
         IF args = NoArgs THEN Throw(TypeErrorUndefined("url"))
         ELSE navigateTo(Get(args, "url"))
    [] name = "click_element" ->
         IF args = NoArgs THEN Throw(TypeErrorUndefined("selector"))
         ELSE clickElement2(Get(args, "selector"))
    [] name = "fill_input" ->
         IF args = NoArgs THEN Throw(TypeErrorUndefined("selector"))
         ELSE fillInput2(Get(args, "selector"), Get(args, "text"))
    [] name = "wait_for_element" ->
         IF args = NoArgs THEN Throw(TypeErrorUndefined("selector"))
         ELSE waitForElement(Get(args, "selector"))
    [] name = "take_screenshot" -> takeScreenshot(GetOpt(args, "filename"))
    [] name = "get_page_content" -> getPageContent
    [] name = "generate_test" ->
         IF args = NoArgs THEN Throw(TypeErrorUndefined("testName"))
         ELSE generateTest2(Get(args, "testName"), Get(args, "description"))
    [] name = "close_browser" -> closeBrowser
    [] OTHER -> Throw("Unknown tool: " \o name)

CallTool(name, args) == IF variant = 1 THEN CallTool1(name, args) ELSE CallTool2(name, args)

-----------------------------------------------------------------------------
(* The driver's steps. *)

Suspend(id, act) == calls' = [i \in DOMAIN calls \cup {id} |-> IF i = id THEN act ELSE calls[i]]

Drop(id) == calls' = [i \in DOMAIN calls \ {id} |-> calls[i]]

\* the handler of call id returns or throws res: one response frame is written
Finish(id, res) ==
  /\ Drop(id)
  /\ stdout' = Append(stdout, Frame([id |-> id, name |-> calls[id].name,
                                      args |-> calls[id].args], res))

\* The answer to a tools/call request that has no name: the handler is registered for
\* CallToolRequestSchema (lines 209, 1130), the server parses the request against that
\* schema before it calls the handler, and a request that does not conform is answered
\* with a JSON-RPC error.
InvalidRequest(req) ==
  [id |-> req.id, name |-> req.name, args |-> req.args, kind |-> "error",
   text |-> "Invalid request parameters", threw |-> FALSE]

\* The CallToolRequestSchema handler (lines 209-264, 1130-1175) up to its first await,
\* for request req; out holds the response frames not yet read.
HandleRequest(req, out) ==
  /\ serverUp
  /\ IF req.name = undefined
     THEN stdout' = Append(out, InvalidRequest(req)) /\ UNCHANGED calls
     ELSE LET res == CallTool(req.name, req.args) IN
            IF res.t = "await"
            THEN Suspend(req.id, [args |-> req.args] @@ res.act) /\ stdout' = out
            ELSE /\ stdout' = Append(out, Frame(req, res))
                 /\ UNCHANGED calls
  /\ UNCHANGED <<variant, serverUp, browser, page, actions, running, launched, pageUrl>>

\* The driver reads one request frame from its standard input.
Receive ==
  /\ stdin # <<>>
  /\ HandleRequest(Head(stdin), stdout)
  /\ stdin' = Tail(stdin)
  /\ UNCHANGED <<messageId, orchVars>>

At(id, name, pc) == id \in DOMAIN calls /\ calls[id].name = name /\ calls[id].pc = pc

\* a Playwright call made on page or browser p can resolve only while p is running
Alive(p) == p # 0 /\ p \in running

\* chromium.launch settles (line 282)
launchBrowserLaunched(id) ==
  /\ At(id, "launch_browser", "launch")
  /\ \/ /\ launched < MaxBrowsers
        /\ launched' = launched + 1
        /\ running' = running \cup {launched + 1}
        /\ browser' = launched + 1
        /\ Suspend(id, [calls[id] EXCEPT !.pc = "newPage", !.p = launched + 1])
        /\ UNCHANGED stdout
     \/ /\ Finish(id, Throw(PlaywrightError))
        /\ UNCHANGED <<launched, running, browser>>
  /\ UNCHANGED <<variant, serverUp, page, actions, pageUrl, stdin, messageId, orchVars>>

\* browser.newPage settles (lines 283-293)
launchBrowserNewPage(id) ==
  /\ At(id, "launch_browser", "newPage")
  /\ \/ /\ Alive(calls[id].p)
        /\ page' = calls[id].p
        /\ pageUrl' = [pageUrl EXCEPT ![calls[id].p] = "about:blank"]
        /\ actions' = <<>>
        /\ Finish(id, Return("Browser launched in " \o Mode(calls[id].a1) \o " mode"))
     \/ /\ Finish(id, Throw(PlaywrightError))
        /\ UNCHANGED <<page, pageUrl, actions>>
  /\ UNCHANGED <<variant, serverUp, browser, running, launched, stdin, messageId, orchVars>>

\* closeBrowser without line 932
AfterCloseKeepsLog == [browser |-> 0, page |-> 0, actions |-> actions]

\* this.browser, this.page and this.actions after lines 930-932
AfterClose == [browser |-> 0, page |-> 0, actions |-> <<>>]

\* browser.close settles (lines 929-941)
closeBrowserDone(id) ==
  /\ At(id, "close_browser", "close")
  /\ \/ /\ running' = running \ {calls[id].p}
        /\ browser' = AfterClose.browser
        /\ page' = AfterClose.page
        /\ actions' = AfterClose.actions
        /\ Finish(id, Return("Browser closed successfully"))
     \/ /\ Finish(id, Throw(PlaywrightError))
        /\ UNCHANGED <<running, browser, page, actions>>
  /\ UNCHANGED <<variant, serverUp, launched, pageUrl, stdin, messageId, orchVars>>

\* unshift in place of push
PushFront(rec) == actions' = <<rec>> \o actions

\* this.actions.push(rec)
Push(rec) == actions' = Append(actions, rec)

NavigateRecord(url) ==
  [type |-> "navigate", url |-> url, code |-> "await page.goto('" \o url \o "');"]
ClickRecord(selector) ==
  [type |-> "click", selector |-> selector, code |-> "await page.click('" \o selector \o "');"]
FillRecord(selector, text, filledValue) ==
  [type |-> "fill", selector |-> selector, text |-> text, actualValue |-> filledValue,
   code |-> "await page.fill('" \o selector \o "', '" \o text \o "');"]
FillRecord2(selector, text) ==
  [type |-> "fill", selector |-> selector, text |-> text,
   code |-> "await page.fill('" \o selector \o "', '" \o text \o "');"]
WaitRecord(selector) ==
  [type |-> "wait", selector |-> selector,
   code |-> "await page.waitForSelector('" \o selector \o "');"]
ScreenshotRecord(filename) ==
  [type |-> "screenshot", filename |-> filename,
   code |-> "await page.screenshot({ path: '" \o filename \o "' });"]
SearchRecord(query, usedStrategy) ==
  [type |-> "github_search", query |-> query, strategy |-> usedStrategy,
   code |-> "// GitHub search for: " \o query \o " using strategy: " \o usedStrategy]

\* the error a rejected Playwright call on p carries
RejectionOn(p) == IF Alive(p) THEN "Timeout exceeded" ELSE PlaywrightError

\* page.goto settles (lines 301-315)
navigateToDone(id) ==
  /\ At(id, "navigate_to", "goto")
  /\ LET url == calls[id].a1 IN
     \/ /\ Alive(calls[id].p) /\ url # undefined
        /\ pageUrl' = [pageUrl EXCEPT ![calls[id].p] = url]
        /\ Push(NavigateRecord(url))
        /\ Finish(id, Return("Navigated to " \o url))
     \/ /\ Finish(id, Throw(RejectionOn(calls[id].p)))
        /\ UNCHANGED <<pageUrl, actions>>
  /\ UNCHANGED <<variant, serverUp, browser, page, running, launched, stdin, messageId, orchVars>>

\* page.waitForSelector settles (lines 540-554)
waitForElementDone(id) ==
  /\ At(id, "wait_for_element", "simple")
  /\ LET selector == calls[id].a1 IN
     \/ /\ Alive(calls[id].p) /\ selector \in PresentSelectors
        /\ Push(WaitRecord(selector))
        /\ Finish(id, Return("Element found: " \o selector))
     \/ /\ Finish(id, Throw(RejectionOn(calls[id].p)))
        /\ UNCHANGED actions
  /\ UNCHANGED <<variant, serverUp, browser, page, running, launched, pageUrl, stdin,
                 messageId, orchVars>>

\* page.screenshot settles (lines 562-576)
takeScreenshotDone(id) ==
  /\ At(id, "take_screenshot", "simple")
  /\ LET filename == calls[id].a1 IN
     \/ /\ Alive(calls[id].p)
        /\ Push(ScreenshotRecord(filename))
        /\ Finish(id, Return("Screenshot saved as " \o filename))
     \/ /\ Finish(id, Throw(RejectionOn(calls[id].p)))
        /\ UNCHANGED actions
  /\ UNCHANGED <<variant, serverUp, browser, page, running, launched, pageUrl, stdin,
                 messageId, orchVars>>

InspectionText(url, elementType) ==
  "Page inspection complete. Found 0 forms, 0 inputs, 0 buttons.\n\nDetailed inspection:\n"
  \o "{url: " \o url \o ", type: " \o elementType \o "}"

\* page.evaluate settles (lines 699-815)
inspectPageDone(id) ==
  /\ At(id, "inspect_page", "simple")
  /\ \/ /\ Alive(calls[id].p)
        /\ Finish(id, Return(InspectionText(pageUrl[calls[id].p], calls[id].a1)))
     \/ Finish(id, Throw(RejectionOn(calls[id].p)))
  /\ UNCHANGED <<variant, serverUp, browser, page, actions, running, launched, pageUrl,
                 stdin, messageId, orchVars>>

\* page.title settles and this.page.url() is read (lines 823-825)
getPageContentTitle(id) ==
  /\ At(id, "get_page_content", "simple")
  /\ \/ /\ Alive(calls[id].p)
        /\ IF page = 0
           THEN Finish(id, Throw(TypeErrorNull("url")))
           ELSE /\ Suspend(id, [calls[id] EXCEPT !.pc = "content", !.p = page,
                                                  !.a1 = pageUrl[page]])
                /\ UNCHANGED stdout
     \/ Finish(id, Throw(RejectionOn(calls[id].p)))
  /\ UNCHANGED <<variant, serverUp, browser, page, actions, running, launched, pageUrl,
                 stdin, messageId, orchVars>>

\* page.content settles (lines 825-834)
getPageContentContent(id) ==
  /\ At(id, "get_page_content", "content")
  /\ \/ /\ Alive(calls[id].p)
        /\ Finish(id, Return("Page Title: " \o PageTitle \o "\nURL: " \o calls[id].a1
                             \o "\nContent Length: " \o PageContentLength \o " characters"))
     \/ Finish(id, Throw(RejectionOn(calls[id].p)))
  /\ UNCHANGED <<variant, serverUp, browser, page, actions, running, launched, pageUrl,
                 stdin, messageId, orchVars>>

\* second server: page.click settles (lines 1220-1234)
clickElement2Done(id) ==
  /\ At(id, "click_element", "simple")
  /\ LET selector == calls[id].a1 IN
     \/ /\ Alive(calls[id].p) /\ selector \in PresentSelectors
        /\ Push(ClickRecord(selector))
        /\ Finish(id, Return("Clicked element: " \o selector))
     \/ /\ Finish(id, Throw(RejectionOn(calls[id].p)))
        /\ UNCHANGED actions
  /\ UNCHANGED <<variant, serverUp, browser, page, running, launched, pageUrl, stdin,
                 messageId, orchVars>>

\* second server: page.fill settles (lines 1242-1257)
fillInput2Done(id) ==
  /\ At(id, "fill_input", "simple")
  /\ LET selector == calls[id].a1
         text == calls[id].a2
     IN
     \/ /\ Alive(calls[id].p) /\ selector \in PresentSelectors /\ text # undefined
        /\ Push(FillRecord2(selector, text))
        /\ Finish(id, Return("Filled input " \o selector \o " with: " \o text))
     \/ /\ Finish(id, Throw(RejectionOn(calls[id].p)))
        /\ UNCHANGED actions
  /\ UNCHANGED <<variant, serverUp, browser, page, running, launched, pageUrl, stdin,
                 messageId, orchVars>>

RECURSIVE Join(_)
\* selectorsToTry.join(', ')
Join(list) ==
  IF list = <<>> THEN ""
  ELSE LET first == IF list[1] = undefined THEN "" ELSE list[1]
       IN IF Len(list) = 1 THEN first ELSE first \o ", " \o Join(Tail(list))

ClickableElements == "[{\"tag\":\"BUTTON\",\"type\":\"submit\",\"id\":\"go\"}]"
InputElements == "[{\"tag\":\"INPUT\",\"type\":\"text\",\"name\":\"q\"}]"

\* an error that names the last failure only
ClickExhaustedLastOnly(tried, lastError, elements) ==
  "Failed to click element with any selector. Last error: " \o lastError

\* the error thrown inside the try of lines 395-417
ClickExhausted(tried, lastError, elements) ==
  "Failed to click element with any selector: " \o Join(tried) \o ". Last error: "
  \o lastError \o ". Available clickable elements: " \o elements

\* an error that names the failure of the page query only
ClickNotInspectedQueryOnly(selector, lastError, evalError) ==
  "Failed to click element " \o selector
  \o ". Could not inspect available elements: " \o evalError

\* the error thrown by the catch of lines 418-422
ClickNotInspected(selector, lastError, evalError) ==
  "Failed to click element " \o selector \o ": " \o lastError
  \o ". Could not inspect available elements: " \o evalError

\* one candidate of clickElement's loop settles (lines 346-392); when it failed, the next
\* candidate starts on this.page as it is now, and with this.page null every remaining
\* candidate and the page query of line 396 fail at once
clickElementCandidate(id) ==
  /\ At(id, "click_element", "candidate")
  /\ LET a == calls[id]
         currentSelector == Head(a.sels)
         rest == Tail(a.sels)
     IN
     \/ /\ Alive(a.p) /\ currentSelector \in PresentSelectors
        /\ Push(ClickRecord(currentSelector))
        /\ Finish(id, Return("Successfully clicked element: " \o currentSelector))
     \/ /\ LET e == RejectionOn(a.p) IN
             IF page = 0
             THEN Finish(id, Throw(ClickNotInspected(a.a1,
                           IF rest = <<>> THEN e ELSE TypeErrorNull("waitForSelector"),
                           TypeErrorNull("$$eval"))))
             ELSE /\ Suspend(id, [a EXCEPT !.sels = rest, !.p = page, !.lastError = e,
                                   !.waited = a.waited + (IF Alive(a.p)
                                                          THEN WaitTimeout(a.a2) ELSE 0),
                                   !.pc = IF rest = <<>> THEN "diagnose" ELSE "candidate"])
                  /\ UNCHANGED stdout
        /\ UNCHANGED actions
  /\ UNCHANGED <<variant, serverUp, browser, page, running, launched, pageUrl, stdin,
                 messageId, orchVars>>

\* the page query made after every candidate failed settles (lines 394-422): the error
\* built in the try is thrown inside the try, so the catch receives it
clickElementDiagnose(id) ==
  /\ At(id, "click_element", "diagnose")
  /\ LET a == calls[id] IN
     \/ /\ Alive(a.p)
        /\ Finish(id, Throw(ClickNotInspected(a.a1, a.lastError,
                              ClickExhausted(a.tried, a.lastError, ClickableElements))))
     \/ Finish(id, Throw(ClickNotInspected(a.a1, a.lastError, RejectionOn(a.p))))
  /\ UNCHANGED <<variant, serverUp, browser, page, actions, running, launched, pageUrl,
                 stdin, messageId, orchVars>>

FillExhausted(tried, lastError, inputs) ==
  "Failed to fill input with any selector: " \o Join(tried) \o ". Last error: "
  \o lastError \o ". Available inputs: " \o inputs

FillNotInspected(selector, lastError, evalError) ==
  "Failed to fill input " \o selector \o ": " \o lastError
  \o ". Could not inspect available inputs: " \o evalError

\* what page.inputValue may read back after page.fill(selector, text)
FilledValues(text) == {text, ""}

\* whether the field is changed once a candidate of call a has failed: a candidate that
\* matches an element of a live page fails at waitForSelector or isVisible, the field
\* as it was, or at the second page.fill or at page.inputValue, the field cleared or
\* filled by the calls before (lines 475-479)
Touched(a, currentSelector) ==
  IF Alive(a.p) /\ currentSelector \in PresentSelectors THEN {a.touched, TRUE}
  ELSE {a.touched}

\* one candidate of fillInput's loop settles (lines 458-502)
fillInputCandidate(id) ==
  /\ At(id, "fill_input", "candidate")
  /\ LET a == calls[id]
         currentSelector == Head(a.sels)
         rest == Tail(a.sels)
     IN
     \/ /\ Alive(a.p) /\ currentSelector \in PresentSelectors /\ a.a2 # undefined
        /\ \E filledValue \in FilledValues(a.a2) :
             /\ Push(FillRecord(currentSelector, a.a2, filledValue))
             /\ Finish(id, Return("Successfully filled input " \o currentSelector
                                  \o " with: " \o a.a2 \o " (actual value: "
                                  \o filledValue \o ")"))
     \/ /\ LET e == RejectionOn(a.p) IN
             IF page = 0
             THEN Finish(id, Throw(FillNotInspected(a.a1,
                           IF rest = <<>> THEN e ELSE TypeErrorNull("waitForSelector"),
                           TypeErrorNull("$$eval"))))
             ELSE /\ \E touched \in Touched(a, currentSelector) :
                       Suspend(id, [a EXCEPT !.sels = rest, !.p = page, !.lastError = e,
                                     !.touched = touched,
                                     !.pc = IF rest = <<>> THEN "diagnose" ELSE "candidate"])
                  /\ UNCHANGED stdout
        /\ UNCHANGED actions
  /\ UNCHANGED <<variant, serverUp, browser, page, running, launched, pageUrl, stdin,
                 messageId, orchVars>>

\* the page query made after every candidate failed settles (lines 504-532)
fillInputDiagnose(id) ==
  /\ At(id, "fill_input", "diagnose")
  /\ LET a == calls[id] IN
     \/ /\ Alive(a.p)
        /\ Finish(id, Throw(FillNotInspected(a.a1, a.lastError,
                              FillExhausted(a.tried, a.lastError, InputElements))))
     \/ Finish(id, Throw(FillNotInspected(a.a1, a.lastError, RejectionOn(a.p))))
  /\ UNCHANGED <<variant, serverUp, browser, page, actions, running, launched, pageUrl,
                 stdin, messageId, orchVars>>

SearchSelectors ==
  { "[data-target=\"query-builder.input\"]", "input[name=\"q\"]", "#query-builder-test",
    "input[placeholder*=\"Search\"]", "input[aria-label*=\"Search\"]",
    ".js-site-search-focus" }

\* what follows a strategy or the results wait that threw error e while the loop or the
\* catch of line 683 goes on: with this.page null everything up to this.page.url() of
\* line 685 throws at once
SearchGoesOn(id, nextPc, e) ==
  IF page = 0
  THEN Finish(id, Throw(TypeErrorNull("url")))
  ELSE /\ Suspend(id, [calls[id] EXCEPT !.pc = nextPc, !.p = page, !.lastError = e])
       /\ UNCHANGED stdout

SearchSucceeded(id, usedStrategy) ==
  IF page = 0
  THEN Finish(id, Throw(TypeErrorNull("url")))
  ELSE /\ Suspend(id, [calls[id] EXCEPT !.pc = "results", !.p = page, !.used = usedStrategy])
       /\ UNCHANGED stdout

AllStrategiesFailed(lastError) ==
  "All GitHub search strategies failed. Last error: " \o lastError

\* strategy 1 settles (lines 588-617): it returns the first selector that worked
githubSearchStrategy1(id) ==
  /\ At(id, "github_search", "strategy1")
  /\ \/ /\ Alive(calls[id].p) /\ calls[id].a1 # undefined
        /\ \E selector \in SearchSelectors \cap PresentSelectors :
             SearchSucceeded(id, selector)
     \/ SearchGoesOn(id, "strategy2", "No search input found")
  /\ UNCHANGED <<variant, serverUp, browser, page, actions, running, launched, pageUrl,
                 stdin, messageId, orchVars>>

\* strategy 2 settles (lines 620-626)
githubSearchStrategy2(id) ==
  /\ At(id, "github_search", "strategy2")
  /\ \/ /\ Alive(calls[id].p) /\ calls[id].a1 # undefined
        /\ SearchSucceeded(id, "keyboard-shortcut")
     \/ SearchGoesOn(id, "strategy3", RejectionOn(calls[id].p))
  /\ UNCHANGED <<variant, serverUp, browser, page, actions, running, launched, pageUrl,
                 stdin, messageId, orchVars>>

\* strategy 3 settles (lines 629-635), and with it the loop (lines 641-655)
githubSearchStrategy3(id) ==
  /\ At(id, "github_search", "strategy3")
  /\ \/ /\ Alive(calls[id].p)
        /\ pageUrl' = [pageUrl EXCEPT ![calls[id].p] = SearchUrl(calls[id].a1)]
        /\ SearchSucceeded(id, "direct-url")
     \/ /\ SearchGoesOn(id, "debug", AllStrategiesFailed(RejectionOn(calls[id].p)))
        /\ UNCHANGED pageUrl
  /\ UNCHANGED <<variant, serverUp, browser, page, actions, running, launched,
                 stdin, messageId, orchVars>>

\* the wait for the results settles (lines 657-682); a missing results selector is
\* tolerated, a page that is gone is not
githubSearchResults(id) ==
  /\ At(id, "github_search", "results")
  /\ LET a == calls[id] IN
     \/ /\ Alive(a.p)
        /\ Push(SearchRecord(a.a1, a.used))
        /\ Finish(id, Return("Successfully performed GitHub search for \"" \o a.a1
                             \o "\" using strategy: " \o a.used))
     \/ /\ ~Alive(a.p)
        /\ SearchGoesOn(id, "debug", RejectionOn(a.p))
        /\ UNCHANGED actions
  /\ UNCHANGED <<variant, serverUp, browser, page, running, launched, pageUrl,
                 stdin, messageId, orchVars>>

\* page.title of the catch settles (lines 683-691)
githubSearchDebug(id) ==
  /\ At(id, "github_search", "debug")
  /\ LET a == calls[id] IN
     \/ /\ Alive(a.p)
        /\ Finish(id, Throw("GitHub search failed: " \o a.lastError \o ". Current URL: "
                            \o pageUrl[a.p] \o ", Page title: " \o PageTitle))
     \/ Finish(id, Throw(RejectionOn(a.p)))
  /\ UNCHANGED <<variant, serverUp, browser, page, actions, running, launched, pageUrl,
                 stdin, messageId, orchVars>>

-----------------------------------------------------------------------------
(* The driver served by a client of its stdio (any MCP client). *)

ToolNames ==
  { "launch_browser", "navigate_to", "click_element", "fill_input", "wait_for_element",
    "take_screenshot", "github_search", "inspect_page", "get_page_content",
    "generate_test", "close_browser" }

\* the argument payloads of the model, per tool: no arguments object at all, a complete
\* object and, for the tools that have required arguments, an empty object
ArgsOf(name) ==
  {NoArgs} \cup
  CASE name = "launch_browser" -> {[headless |-> TRUE]}
    [] name = "navigate_to" -> {EmptyArgs} \cup {[url |-> u] : u \in Urls}
    [] name = "click_element" -> {EmptyArgs, [selector |-> CallerSelector]}
    [] name = "fill_input" -> {EmptyArgs, [selector |-> CallerSelector, text |-> TextValue]}
    [] name = "wait_for_element" -> {EmptyArgs, [selector |-> CallerSelector]}
    [] name = "take_screenshot" -> {[filename |-> FileValue]}
    [] name = "github_search" -> {EmptyArgs, [query |-> QueryValue]}
    [] name = "inspect_page" -> {[elementType |-> "inputs"]}
    [] name = "generate_test" ->
         { EmptyArgs,
           [testName |-> TestName, description |-> Description,
            actions |-> << [name |-> "click_element",
                            arguments |-> [selector |-> CallerSelector]] >>] }
    [] OTHER -> {}

Requests ==
  UNION { { [name |-> n, args |-> a] : a \in ArgsOf(n) } : n \in ToolNames \cup {UnknownTool} }

\* A client of the driver sends one tools/call request, which the driver starts to
\* handle.
ClientCall ==
  /\ messageId < MaxCalls
  /\ Cardinality(DOMAIN calls) < MaxInflight
  /\ \E r \in Requests :
       HandleRequest([id |-> messageId + 1, name |-> r.name, args |-> r.args], stdout)
  /\ messageId' = messageId + 1
  /\ UNCHANGED <<stdin, orchVars>>

\* The client reads the response frames written.
ClientRead ==
  /\ stdout # <<>>
  /\ stdout' = <<>>
  /\ UNCHANGED <<driverVars, stdin, messageId, orchVars>>

\* The client reads every response frame as soon as it is written: the driver never
\* reads its own output, so that when the client reads changes nothing in the driver.
Drained == stdout = <<>>

\* the driver after construction (lines 23-25 and 986-988), serving its stdio
DriverInit ==
  /\ variant \in {1, 2}
  /\ browser = 0
  /\ page = 0
  /\ actions = <<>>
  /\ running = {}
  /\ launched = 0
  /\ pageUrl = [p \in 1..(MaxBrowsers + 1) |-> "about:blank"]
  /\ calls = <<>>
  /\ stdin = <<>>
  /\ stdout = <<>>

Init ==
  /\ DriverInit
  /\ serverUp = TRUE
  /\ messageId = 0
  /\ isConnected = FALSE
  /\ browserLaunched = FALSE
  /\ listeners = {}
  /\ timers = {}
  /\ prompts = <<>>
  /\ stderr = "pending"
  /\ cleaning = {}
  /\ subscribers = 0
  /\ wsOut = <<>>

Next ==
  \/ Drained /\ ClientCall
  \/ ClientRead
  \/ \E id \in DOMAIN calls : Drained /\ launchBrowserLaunched(id)
  \/ \E id \in DOMAIN calls : Drained /\ launchBrowserNewPage(id)
  \/ \E id \in DOMAIN calls : Drained /\ closeBrowserDone(id)
  \/ \E id \in DOMAIN calls : Drained /\ navigateToDone(id)
  \/ \E id \in DOMAIN calls : Drained /\ waitForElementDone(id)
  \/ \E id \in DOMAIN calls : Drained /\ takeScreenshotDone(id)
  \/ \E id \in DOMAIN calls : Drained /\ inspectPageDone(id)
  \/ \E id \in DOMAIN calls : Drained /\ getPageContentTitle(id)
  \/ \E id \in DOMAIN calls : Drained /\ getPageContentContent(id)
  \/ \E id \in DOMAIN calls : Drained /\ clickElementCandidate(id)
  \/ \E id \in DOMAIN calls : Drained /\ clickElementDiagnose(id)
  \/ \E id \in DOMAIN calls : Drained /\ clickElement2Done(id)
  \/ \E id \in DOMAIN calls : Drained /\ fillInputCandidate(id)
  \/ \E id \in DOMAIN calls : Drained /\ fillInputDiagnose(id)
  \/ \E id \in DOMAIN calls : Drained /\ fillInput2Done(id)
  \/ \E id \in DOMAIN calls : Drained /\ githubSearchStrategy1(id)
  \/ \E id \in DOMAIN calls : Drained /\ githubSearchStrategy2(id)
  \/ \E id \in DOMAIN calls : Drained /\ githubSearchStrategy3(id)
  \/ \E id \in DOMAIN calls : Drained /\ githubSearchResults(id)
  \/ \E id \in DOMAIN calls : Drained /\ githubSearchDebug(id)

Spec == Init /\ [][Next]_vars

-----------------------------------------------------------------------------
(* The orchestrator (ai-integration.js) and its pipe to the driver. *)

\* the prompt of the model: lower-case words and blanks
PromptText == "go to example"

RECURSIVE Words(_, _)
\* prompt.split(/\s+/) over a text of words and blanks, word being the word read so far
Words(text, word) ==
  IF text = "" THEN <<word>>
  ELSE IF SubSeq(text, 1, 1) = " "
       THEN <<word>> \o Words(SubSeq(text, 2, Len(text)), "")
       ELSE Words(SubSeq(text, 2, Len(text)), word \o SubSeq(text, 1, 1))

RECURSIVE JoinWords(_)
JoinWords(words) ==
  IF words = <<>> THEN ""
  ELSE IF Len(words) = 1 THEN words[1]
       ELSE words[1] \o "_" \o JoinWords(Tail(words))

IsLong(word) == Len(word) > 2

\* lines 230-241, for a prompt of lower-case words and blanks
extractTestName(prompt) ==
  LET long == SelectSeq(Words(prompt, ""), IsLong)
      words == JoinWords(SubSeq(long, 1, IF Len(long) < 4 THEN Len(long) ELSE 4))
  IN IF words = "" THEN "generated_test" ELSE words

Action(name, arguments) == [name |-> name, arguments |-> arguments]
LaunchAction == Action("launch_browser", [headless |-> TRUE])

\* what the planning model answers: a text that does not parse, a JSON value that is
\* not an array, or one of these arrays; the last one is an array whose element is not
\* an action (it has no name)
Unparsable == "Unexpected token"
NotIterable == "actions is not iterable"
Plans ==
  { <<>>,
    << LaunchAction, Action("navigate_to", [url |-> GithubUrl]),
       Action("click_element", [selector |-> CallerSelector]) >>,
    << Action("navigate_to", [url |-> OtherUrl]), Action("take_screenshot", EmptyArgs) >>,
    << LaunchAction, Action("github_search", [query |-> QueryValue]),
       Action("take_screenshot", [filename |-> FileValue]) >>,
    << LaunchAction, Action("close_browser", EmptyArgs) >>,
    << LaunchAction, Action("fill_input", [selector |-> CallerSelector, text |-> TextValue]),
       Action("wait_for_element", [selector |-> CallerSelector]) >>,
    << LaunchAction, Action("inspect_page", [elementType |-> "inputs"]),
       Action("get_page_content", EmptyArgs) >>,
    << [name |-> "take_screenshot"] >>,
    << [action |-> "launch_browser"] >> }

\* action.name (lines 211, 216, 218, 225); undefined when the element has no name
NameOf(action) == IF "name" \in DOMAIN action THEN action.name ELSE undefined

\* JSON.stringify drops an undefined arguments
ArgumentsOf(action) == IF "arguments" \in DOMAIN action THEN action.arguments ELSE NoArgs

\* what processPrompt returns (lines 98-104 and 106-110)
Succeeded(results) == [success |-> TRUE, results |-> results]
Failed(message) == [success |-> FALSE, error |-> message]

\* the error executeAction throws (lines 224-226)
FailedToExecute(name, message) == "Failed to execute action " \o name \o ": " \o message

\* the error a request of activation p fails with: executeAction wraps it, the
\* generate_test request of processPrompt does not
Rejection(p, message) ==
  IF p.pc = "action" THEN FailedToExecute(NameOf(p.actions[p.i]), message) ELSE message

\* A processPrompt activation: the plan, the index of the action in hand, the results so
\* far, where it is suspended (action: in executeAction, test: at the generate_test
\* request, done: returned), the id of the request awaited, what was returned, and
\* whether the WebSocket handler made the call.  afterTimeout records whether a request
\* of an earlier call had timed out when this call was made, and answer what the
\* planning model answered (text: not JSON, value: JSON and not an array, array); no
\* action reads them.
Activate(acts) ==
  [prompt |-> PromptText, actions |-> acts, i |-> 1, results |-> <<>>, pc |-> "action",
   id |-> 0, returned |-> Failed(""), ws |-> FALSE, afterTimeout |-> FALSE,
   answer |-> "array"]

\* activation n has returned the failure of a request that timed out
TimedOut(n) ==
  /\ prompts[n].pc = "done" /\ ~prompts[n].returned.success
  /\ Contains(prompts[n].returned.error, "MCP request timeout")

SetPrompt(n, p) ==
  prompts' = [k \in DOMAIN prompts \cup {n} |-> IF k = n THEN p ELSE prompts[k]]

\* the id of the last request is taken again
SameId(id) == id

\* ++this.messageId (line 40)
NextId(id) == id + 1

\* sendMCPRequest (lines 32-68) for activation n, which is p but for pc and id: it
\* throws when not connected, else it takes the next id, arms the timer, registers the
\* listener and writes the frame; ls and ts are the listeners and timers before it.
\* With this.mcpProcess null (the child was killed) the executor throws at line 66, the
\* id taken and the timer armed.
sendMCPRequest(n, p, name, args, ls, ts) ==
  IF ~isConnected
  THEN /\ SetPrompt(n, [p EXCEPT !.pc = "done",
                                 !.returned = Failed(Rejection(p, "MCP server not connected"))])
       /\ listeners' = ls /\ timers' = ts
       /\ UNCHANGED <<stdin, messageId>>
  ELSE IF ~serverUp
  THEN /\ messageId < MaxRequests
       /\ messageId' = NextId(messageId)
       /\ timers' = ts \cup {NextId(messageId)}
       /\ listeners' = ls
       /\ UNCHANGED stdin
       /\ SetPrompt(n, [p EXCEPT !.pc = "done", !.id = NextId(messageId),
                                 !.returned = Failed(Rejection(p, TypeErrorNull("stdout")))])
  ELSE /\ messageId < MaxRequests
       /\ messageId' = NextId(messageId)
       /\ timers' = ts \cup {NextId(messageId)}
       /\ listeners' = ls \cup {NextId(messageId)}
       /\ stdin' = Append(stdin, [id |-> NextId(messageId), name |-> name, args |-> args])
       /\ SetPrompt(n, [p EXCEPT !.id = NextId(messageId)])

\* the loop goes on two actions further
SkipAction(i) == i + 2

\* the iteration of for (const action of actions) (line 79)
NextAction(i) == i + 1

\* processPrompt from the head of its loop to its next await or its return (lines 79-104)
Continue(n, p, ls, ts) ==
  IF p.i <= Len(p.actions)
  THEN sendMCPRequest(n, [p EXCEPT !.pc = "action"], NameOf(p.actions[p.i]),
                      ArgumentsOf(p.actions[p.i]), ls, ts)
  ELSE IF Len(p.actions) > 0
       THEN sendMCPRequest(n, [p EXCEPT !.pc = "test"], "generate_test",
                           [testName |-> extractTestName(p.prompt), description |-> p.prompt,
                            actions |-> p.actions], ls, ts)
       ELSE /\ SetPrompt(n, [p EXCEPT !.pc = "done", !.returned = Succeeded(p.results)])
            /\ listeners' = ls /\ timers' = ts
            /\ UNCHANGED <<stdin, messageId>>

\* spawn of the driver (lines 15-20), which runs up to its line on stderr; it is called
\* once, on a new orchestrator
startMCPServer ==
  /\ ~serverUp /\ stderr = "none"
  /\ serverUp' = TRUE
  /\ stderr' = "pending"
  /\ UNCHANGED <<variant, browser, page, actions, running, launched, pageUrl, calls,
                 pipeVars, isConnected, browserLaunched, listeners, timers, prompts,
                 cleaning, subscribers, wsOut>>

\* the stderr listener sees 'Playwright MCP server running' (lines 21-26); the line the
\* child wrote is delivered whether or not the child still runs
onStderr ==
  /\ stderr = "pending"
  /\ stderr' = "read"
  /\ isConnected' = TRUE
  /\ UNCHANGED <<driverVars, pipeVars, browserLaunched, listeners, timers, prompts,
                 cleaning, subscribers, wsOut>>

\* this.mcpProcess.kill() and the assignments after it (lines 255-260): the child and
\* the browsers it launched are gone, with the calls in progress and the requests unread
Kill ==
  /\ serverUp' = FALSE
  /\ browser' = 0
  /\ page' = 0
  /\ actions' = <<>>
  /\ running' = {}
  /\ calls' = <<>>
  /\ stdin' = <<>>
  /\ isConnected' = FALSE
  /\ browserLaunched' = FALSE
  /\ UNCHANGED <<variant, launched, pageUrl>>

\* cleanup (lines 243-262) up to its await or its return: with a child and a browser
\* recorded as launched it requests close_browser and waits for the answer, else it
\* kills the child, if there is one
cleanup ==
  /\ IF serverUp /\ browserLaunched /\ isConnected
     THEN /\ messageId < MaxRequests
          /\ messageId' = NextId(messageId)
          /\ timers' = timers \cup {NextId(messageId)}
          /\ listeners' = listeners \cup {NextId(messageId)}
          /\ cleaning' = cleaning \cup {NextId(messageId)}
          /\ stdin' = Append(stdin, [id |-> NextId(messageId), name |-> "close_browser",
                                     args |-> EmptyArgs])
          /\ UNCHANGED <<driverVars, isConnected, browserLaunched>>
     ELSE /\ serverUp
          /\ Kill
          /\ UNCHANGED <<messageId, timers, listeners, cleaning>>
  /\ UNCHANGED <<stdout, prompts, stderr, subscribers, wsOut>>

\* the activations of calls by the WebSocket handler that return in this step
NewlyReturned ==
  { n \in DOMAIN prompts' :
      /\ prompts'[n].ws /\ prompts'[n].pc = "done"
      /\ n \notin DOMAIN prompts \/ prompts[n].pc # "done" }

\* this.emit('actionExecuted', ...) for action i of activation n (line 82): every
\* listener registered sends one message to the client (part_000 lines 140-147)
Emit(n, i) ==
  [k \in 1..subscribers |-> [type |-> "action-executed", prompt |-> n, action |-> i]]

\* what goes to the WebSocket client in a step: the messages of the emits, then the
\* result of the call that returned to the handler (part_000 lines 149-155)
wsSend(emitted) ==
  wsOut' = wsOut \o emitted \o
           (IF NewlyReturned = {} THEN <<>>
            ELSE <<[type |-> "result", prompt |-> CHOOSE n \in NewlyReturned : TRUE]>>)

\* processPrompt once analyzePrompt has its answer, up to the first await of the loop
\* (lines 71-96, 195-205).  A text that JSON.parse rejects fails with the error of line
\* 204; a JSON value that is not an array is returned by line 202 and for...of throws on
\* it (line 79); an array, one of plans, is iterated whatever its elements are.
StartPrompt(plans, ws) ==
  LET late == \E a \in DOMAIN prompts : TimedOut(a) IN
  \/ /\ SetPrompt(Len(prompts) + 1,
                   [Activate(<<>>) EXCEPT !.pc = "done", !.ws = ws, !.afterTimeout = late,
                      !.answer = "text",
                      !.returned = Failed("Failed to parse AI response: " \o Unparsable)])
     /\ UNCHANGED <<stdin, messageId, listeners, timers>>
  \/ /\ SetPrompt(Len(prompts) + 1,
                   [Activate(<<>>) EXCEPT !.pc = "done", !.ws = ws, !.afterTimeout = late,
                      !.answer = "value", !.returned = Failed(NotIterable)])
     /\ UNCHANGED <<stdin, messageId, listeners, timers>>
  \/ \E acts \in plans :
       Continue(Len(prompts) + 1,
                [Activate(acts) EXCEPT !.ws = ws, !.afterTimeout = late], listeners, timers)

\* processPrompt called on the orchestrator (part_001 lines 37, test-complex.js)
processPrompt ==
  /\ Len(prompts) < MaxPrompts
  /\ StartPrompt(Plans, FALSE)
  /\ UNCHANGED <<driverVars, stdout, isConnected, browserLaunched, stderr, cleaning,
                 subscribers, wsOut>>

\* every pending activation awaits every request
AwaitingAny(id) == {n \in DOMAIN prompts : prompts[n].pc # "done"}

\* a returned activation still awaits its last request
AwaitingOrReturned(id) == {n \in DOMAIN prompts : prompts[n].id = id}

\* the activations whose request id is pending
Awaiting(id) == {n \in DOMAIN prompts : prompts[n].pc # "done" /\ prompts[n].id = id}

\* the listener answers every response
MatchesAny(id, response) == TRUE

\* the test of the listener of request id (line 52)
Matches(id, response) == response.id = id

\* A chunk of the child's output reaches the onData listeners (lines 49-64).  A chunk
\* that is one whole frame is parsed: the listener of its id clears its timer, removes
\* itself and settles its promise, and the activation that awaits it goes on (lines
\* 216-222, 80-96, 250-260); with this.mcpProcess null the listener throws at line 54, the
\* timer cleared, and the catch of line 60 swallows the error.  A frame that arrives in
\* any other way (in two chunks, or in one chunk with other frames) is not parsed and
\* the catch of line 60 drops it.
onData ==
  /\ stdout # <<>>
  /\ stdout' = Tail(stdout)
  /\ \/ UNCHANGED <<driverVars, stdin, messageId, isConnected, browserLaunched, listeners,
                     timers, prompts, cleaning, wsOut>>
     \/ LET response == Head(stdout)
            matching == {id \in listeners : Matches(id, response)}
            heard == matching # {}
            ls == listeners \ matching
            ts == timers \ matching
            resolved == /\ serverUp /\ heard /\ response.id \notin cleaning
                        /\ Awaiting(response.id) # {} /\ response.kind # "error"
            emitted == LET n == CHOOSE n \in Awaiting(response.id) : TRUE
                       IN IF resolved /\ prompts[n].pc = "action"
                          THEN Emit(n, prompts[n].i) ELSE <<>>
        IN /\ IF ~serverUp
              THEN /\ timers' = ts
                   /\ UNCHANGED <<driverVars, stdin, messageId, isConnected, browserLaunched,
                                  listeners, prompts, cleaning>>
              ELSE IF heard /\ response.id \in cleaning
              THEN /\ cleaning' = cleaning \ {response.id}
                   /\ listeners' = ls /\ timers' = ts
                   /\ Kill
                   /\ UNCHANGED <<messageId, prompts>>
              ELSE IF ~heard \/ Awaiting(response.id) = {}
              THEN /\ listeners' = ls /\ timers' = ts
                   /\ UNCHANGED <<driverVars, stdin, messageId, isConnected, browserLaunched,
                                  prompts, cleaning>>
              ELSE LET n == CHOOSE n \in Awaiting(response.id) : TRUE
                       p == prompts[n]
                   IN /\ IF response.kind = "error"
                         THEN /\ SetPrompt(n, [p EXCEPT !.pc = "done",
                                                !.returned = Failed(Rejection(p, response.text))])
                              /\ listeners' = ls /\ timers' = ts
                              /\ UNCHANGED <<stdin, messageId, browserLaunched>>
                         ELSE IF p.pc = "action"
                         THEN /\ browserLaunched' =
                                   (IF NameOf(p.actions[p.i]) = "launch_browser" THEN TRUE
                                    ELSE IF NameOf(p.actions[p.i]) = "close_browser" THEN FALSE
                                    ELSE browserLaunched)
                              /\ Continue(n, [p EXCEPT !.results = Append(@, response),
                                                       !.i = NextAction(@)], ls, ts)
                         ELSE /\ SetPrompt(n, [p EXCEPT !.pc = "done",
                                                !.returned = Succeeded(Append(p.results, response))])
                              /\ listeners' = ls /\ timers' = ts
                              /\ UNCHANGED <<stdin, messageId, browserLaunched>>
                      /\ UNCHANGED <<driverVars, isConnected, cleaning>>
           /\ wsSend(emitted)
  /\ UNCHANGED <<stderr, subscribers>>

\* the 30 s timer of a request fires (lines 45-47): its promise is rejected, its
\* listener stays; a cleanup that awaited it goes on to kill the child
onTimeout ==
  \E id \in timers :
    /\ timers' = timers \ {id}
    /\ IF id \in cleaning
       THEN /\ cleaning' = cleaning \ {id}
            /\ IF serverUp
               THEN Kill
               ELSE UNCHANGED <<driverVars, stdin, isConnected, browserLaunched>>
            /\ UNCHANGED prompts
       ELSE /\ IF Awaiting(id) = {}
               THEN UNCHANGED prompts
               ELSE LET n == CHOOSE n \in Awaiting(id) : TRUE
                    IN SetPrompt(n, [prompts[n] EXCEPT !.pc = "done",
                         !.returned = Failed(Rejection(prompts[n], "MCP request timeout"))])
            /\ UNCHANGED <<driverVars, stdin, isConnected, browserLaunched, cleaning>>
    /\ wsSend(<<>>)
    /\ UNCHANGED <<stdout, messageId, listeners, stderr, subscribers>>

\* the orchestrator after its constructor (lines 6-13), the driver not yet spawned
InitOrch ==
  /\ DriverInit
  /\ serverUp = FALSE
  /\ messageId = 0
  /\ isConnected = FALSE
  /\ browserLaunched = FALSE
  /\ listeners = {}
  /\ timers = {}
  /\ prompts = <<>>
  /\ stderr = "none"
  /\ cleaning = {}
  /\ subscribers = 0
  /\ wsOut = <<>>

NextOrch ==
  \/ startMCPServer
  \/ onStderr
  \/ processPrompt
  \/ cleanup
  \/ Receive
  \/ onData
  \/ onTimeout
  \/ \E id \in DOMAIN calls : launchBrowserLaunched(id)
  \/ \E id \in DOMAIN calls : launchBrowserNewPage(id)
  \/ \E id \in DOMAIN calls : closeBrowserDone(id)
  \/ \E id \in DOMAIN calls : navigateToDone(id)
  \/ \E id \in DOMAIN calls : waitForElementDone(id)
  \/ \E id \in DOMAIN calls : takeScreenshotDone(id)
  \/ \E id \in DOMAIN calls : inspectPageDone(id)
  \/ \E id \in DOMAIN calls : getPageContentTitle(id)
  \/ \E id \in DOMAIN calls : getPageContentContent(id)
  \/ \E id \in DOMAIN calls : clickElementCandidate(id)
  \/ \E id \in DOMAIN calls : clickElementDiagnose(id)
  \/ \E id \in DOMAIN calls : clickElement2Done(id)
  \/ \E id \in DOMAIN calls : fillInputCandidate(id)
  \/ \E id \in DOMAIN calls : fillInputDiagnose(id)
  \/ \E id \in DOMAIN calls : fillInput2Done(id)
  \/ \E id \in DOMAIN calls : githubSearchStrategy1(id)
  \/ \E id \in DOMAIN calls : githubSearchStrategy2(id)
  \/ \E id \in DOMAIN calls : githubSearchStrategy3(id)
  \/ \E id \in DOMAIN calls : githubSearchResults(id)
  \/ \E id \in DOMAIN calls : githubSearchDebug(id)

SpecOrch == InitOrch /\ [][NextOrch]_vars

-----------------------------------------------------------------------------
(* The web server (unnamed/part_000) with a session started: its prompt handlers, the
   orchestrator and the driver. *)

\* what the planning model answers in the runs of the web server
SessionPlans ==
  { <<>>,
    << LaunchAction >>,
    << Action("take_screenshot", [filename |-> FileValue]) >> }

\* POST /api/process-prompt (lines 68-90) with a session and a prompt, up to the first
\* await of processPrompt's loop
postProcessPrompt ==
  /\ serverUp
  /\ Len(prompts) < MaxMessages
  /\ StartPrompt(SessionPlans, FALSE)
  /\ UNCHANGED <<driverVars, stdout, isConnected, browserLaunched, stderr, cleaning,
                 subscribers, wsOut>>

\* a process-prompt message on the WebSocket (lines 124-156) with a session: one more
\* listener of 'actionExecuted' is registered and processPrompt runs up to the first
\* await of its loop
onMessage ==
  /\ serverUp
  /\ Len(prompts) < MaxMessages
  /\ subscribers' = subscribers + 1
  /\ StartPrompt(SessionPlans, TRUE)
  /\ wsSend(<<>>)
  /\ UNCHANGED <<driverVars, stdout, isConnected, browserLaunched, stderr, cleaning>>

\* the server once POST /api/start-session has answered (lines 40-59): the driver
\* runs and its startup line has been observed
InitSession ==
  /\ DriverInit
  /\ serverUp = TRUE
  /\ messageId = 0
  /\ isConnected = TRUE
  /\ browserLaunched = FALSE
  /\ listeners = {}
  /\ timers = {}
  /\ prompts = <<>>
  /\ stderr = "read"
  /\ cleaning = {}
  /\ subscribers = 0
  /\ wsOut = <<>>

\* cleanup is what POST /api/stop-session runs (lines 101-106)
NextSession ==
  \/ postProcessPrompt
  \/ onMessage
  \/ cleanup
  \/ Receive
  \/ onData
  \/ onTimeout
  \/ \E id \in DOMAIN calls : launchBrowserLaunched(id)
  \/ \E id \in DOMAIN calls : launchBrowserNewPage(id)
  \/ \E id \in DOMAIN calls : closeBrowserDone(id)
  \/ \E id \in DOMAIN calls : takeScreenshotDone(id)

SpecSession == InitSession /\ [][NextSession]_vars

-----------------------------------------------------------------------------
(* The bridge under calls that the driver answers at once. *)

\* plans of one action that the driver answers without a browser
BridgePlans ==
  { << Action("close_browser", EmptyArgs) >>,
    << Action("take_screenshot", [filename |-> FileValue]) >> }

\* POST /api/process-prompt (part_000 lines 68-90) with a plan of BridgePlans
postShortPrompt ==
  /\ serverUp
  /\ Len(prompts) < MaxMessages
  /\ StartPrompt(BridgePlans, FALSE)
  /\ UNCHANGED <<driverVars, stdout, isConnected, browserLaunched, stderr, cleaning,
                 subscribers, wsOut>>

NextBridge ==
  \/ postShortPrompt
  \/ cleanup
  \/ Receive
  \/ onData
  \/ onTimeout

SpecBridge == InitSession /\ [][NextBridge]_vars

-----------------------------------------------------------------------------
(* The test scripts (unnamed/part_001, test-complex.js): the driver is started, one
   prompt is processed, and cleanup runs when it has returned. *)

\* await integration.processPrompt(testPrompt), after the await of startMCPServer
\* (part_001 lines 23-37, test-complex.js lines 12-17)
testPrompt ==
  /\ isConnected
  /\ prompts = <<>>
  /\ StartPrompt(Plans, FALSE)
  /\ UNCHANGED <<driverVars, stdout, isConnected, browserLaunched, stderr, cleaning,
                 subscribers, wsOut>>

\* the finally block (part_001 lines 56-60, test-complex.js lines 40-42)
testCleanup ==
  /\ prompts # <<>>
  /\ prompts[1].pc = "done"
  /\ cleanup

NextScript ==
  \/ startMCPServer
  \/ onStderr
  \/ testPrompt
  \/ testCleanup
  \/ Receive
  \/ onData
  \/ onTimeout
  \/ \E id \in DOMAIN calls : launchBrowserLaunched(id)
  \/ \E id \in DOMAIN calls : launchBrowserNewPage(id)
  \/ \E id \in DOMAIN calls : closeBrowserDone(id)
  \/ \E id \in DOMAIN calls : navigateToDone(id)
  \/ \E id \in DOMAIN calls : waitForElementDone(id)
  \/ \E id \in DOMAIN calls : takeScreenshotDone(id)
  \/ \E id \in DOMAIN calls : inspectPageDone(id)
  \/ \E id \in DOMAIN calls : getPageContentTitle(id)
  \/ \E id \in DOMAIN calls : getPageContentContent(id)
  \/ \E id \in DOMAIN calls : clickElementCandidate(id)
  \/ \E id \in DOMAIN calls : clickElementDiagnose(id)
  \/ \E id \in DOMAIN calls : clickElement2Done(id)
  \/ \E id \in DOMAIN calls : fillInputCandidate(id)
  \/ \E id \in DOMAIN calls : fillInputDiagnose(id)
  \/ \E id \in DOMAIN calls : fillInput2Done(id)
  \/ \E id \in DOMAIN calls : githubSearchStrategy1(id)
  \/ \E id \in DOMAIN calls : githubSearchStrategy2(id)
  \/ \E id \in DOMAIN calls : githubSearchStrategy3(id)
  \/ \E id \in DOMAIN calls : githubSearchResults(id)
  \/ \E id \in DOMAIN calls : githubSearchDebug(id)

SpecScript == InitOrch /\ [][NextScript]_vars

-----------------------------------------------------------------------------
(* The script generator applied to lists of records (generate_test with a list). *)

\* a selector with quote characters, as the planning prompt itself writes one
\* (ai-integration.js line 145)
QuotedSelector == "input[name='q']"

\* the records of the lists: actions of a plan (name and arguments), for every tool and
\* for an unknown one, a plan action without arguments, and records of the log (code)
GenRecords ==
  { LaunchAction,
    Action("navigate_to", [url |-> OtherUrl]),
    Action("click_element", [selector |-> CallerSelector]),
    Action("fill_input", [selector |-> QuotedSelector, text |-> TextValue]),
    Action("wait_for_element", [selector |-> CallerSelector]),
    Action("take_screenshot", [filename |-> FileValue]),
    Action("take_screenshot", EmptyArgs),
    Action("github_search", [query |-> QueryValue]),
    Action("inspect_page", EmptyArgs),
    Action("get_page_content", EmptyArgs),
    Action("close_browser", EmptyArgs),
    Action(UnknownTool, EmptyArgs),
    [name |-> "take_screenshot"],
    ClickRecord(CallerSelector),
    NavigateRecord(GithubUrl) }

GenLists == UNION { [1..n -> GenRecords] : n \in 0..MaxLen }

\* the arguments of a generate_test request that supplies a list
GenArgs ==
  { [testName |-> TestName, description |-> d, actions |-> acts] :
      d \in {Description, ""}, acts \in GenLists }

\* The driver as constructed and serving, with the same generate_test request written
\* twice to its input.
InitGen ==
  /\ variant \in {1, 2}
  /\ serverUp = TRUE
  /\ browser = 0
  /\ page = 0
  /\ actions = <<>>
  /\ running = {}
  /\ launched = 0
  /\ pageUrl = [p \in 1..(MaxBrowsers + 1) |-> "about:blank"]
  /\ calls = <<>>
  /\ \E a \in GenArgs :
       stdin = << [id |-> 1, name |-> "generate_test", args |-> a],
                  [id |-> 2, name |-> "generate_test", args |-> a] >>
  /\ stdout = <<>>
  /\ messageId = 2
  /\ isConnected = FALSE
  /\ browserLaunched = FALSE
  /\ listeners = {}
  /\ timers = {}
  /\ prompts = <<>>
  /\ stderr = "pending"
  /\ cleaning = {}
  /\ subscribers = 0
  /\ wsOut = <<>>

NextGen ==
  \/ Receive
  \/ ClientRead

SpecGen == InitGen /\ [][NextGen]_vars

-----------------------------------------------------------------------------
(* Vocabulary of the properties. *)

Frames(q) == {q[i] : i \in DOMAIN q}
\* the response frames a step writes
NewFrames == Frames(stdout') \ Frames(stdout)
\* the calls a step suspends at their first await
StartedIds == DOMAIN calls' \ DOMAIN calls
\* frame r answers a call in the step that started its handler
Immediate(r) == r \in NewFrames /\ r.id \notin DOMAIN calls
\* frame r answers a call that was suspended
Completed(r) == r \in NewFrames /\ r.id \in DOMAIN calls

IsPrefix(s, t) == Len(s) <= Len(t) /\ SubSeq(t, 1, Len(s)) = s

PageOperations ==
  { "navigate_to", "click_element", "fill_input", "wait_for_element", "take_screenshot",
    "inspect_page", "github_search", "get_page_content" }
\* the page operations of the server that runs: the second one has neither
\* inspect_page nor github_search
PageOperationsOf(v) ==
  IF v = 1 THEN PageOperations ELSE PageOperations \ {"inspect_page", "github_search"}
ToolsOf(v) == IF v = 1 THEN ToolNames ELSE ToolNames \ {"inspect_page", "github_search"}

LaunchedText(args) == "Browser launched in " \o Mode(Headless(args)) \o " mode"

-----------------------------------------------------------------------------
(* Session preconditions and the error boundary *)

\* C1: a page operation of the running server called while this.page is null is
\* answered at once by the error envelope carrying 'Browser not launched', browser, page
\* and log stay as they are, and the driver keeps serving.
C1_BrowserNotLaunched ==
  [][ page = 0 =>
        /\ \A id \in StartedIds : calls'[id].name \notin PageOperationsOf(variant)
        /\ \A r \in NewFrames :
             (Immediate(r) /\ r.name \in PageOperationsOf(variant)) =>
               /\ r.text = ErrorText(r.name, BrowserNotLaunched)
               /\ UNCHANGED <<browser, page, actions>>
               /\ serverUp' ]_vars

\* C2: whatever the tool name and the arguments, the handler answers with a result
\* envelope and no exception leaves it; the text is 'Error executing <tool>: <message>'
\* when the operation threw, with message 'Unknown tool: <name>' for a name the server
\* has not, and the driver keeps accepting calls.
C2_AlwaysEnvelope ==
  /\ serverUp
  /\ \A r \in Frames(stdout) :
       /\ r.kind = "result"
       /\ r.name \notin ToolsOf(variant) =>
            r.threw /\ r.text = ErrorText(r.name, "Unknown tool: " \o r.name)
       /\ r.threw => StartsWith(r.text, "Error executing " \o r.name \o ": ")

\* a rejected page.goto answered as a result, other calls having been served
C2_Witness ==
  \E r \in Frames(stdout) :
    /\ r.name = "navigate_to" /\ r.threw
    /\ messageId = MaxCalls
    /\ \E p \in 1..MaxBrowsers : r.text = ErrorText("navigate_to", RejectionOn(p))

-----------------------------------------------------------------------------
(* Session lifecycle *)

\* C6: a launch_browser called with no session (in the first server every launch that
\* gets to chromium.launch was called with this.browser null) that returns 'Browser
\* launched ...' leaves the browser and page handles both set and the log empty, so
\* that page operations pass their check of this.page.
C6_LaunchCreatesSession ==
  [][ variant = 1 =>
        \A r \in NewFrames :
          (Completed(r) /\ r.name = "launch_browser" /\ ~r.threw) =>
            /\ r.text = LaunchedText(r.args)
            /\ browser' # 0 /\ page' # 0
            /\ actions' = <<>> ]_vars

\* C7: launch_browser called while this.browser is set is a no-op: chromium.launch is
\* not called, the answer is a non-error result given at once, and browser handle, page
\* handle, log and the set of running browsers stay as they are.
C7_LaunchOnActiveSession ==
  [][ browser # 0 =>
        /\ \A id \in StartedIds : calls'[id].name # "launch_browser"
        /\ \A r \in NewFrames :
             (Immediate(r) /\ r.name = "launch_browser") =>
               /\ ~r.threw
               /\ UNCHANGED <<browser, page, actions, running, launched>> ]_vars

\* C8: at most one browser is launched and not closed, and it is the one this.browser
\* refers to.
C8_OneBrowser ==
  /\ Cardinality(running) <= 1
  /\ \A b \in running : b = browser

\* C9: a close_browser that finds this.browser set and whose browser.close() resolves
\* answers 'Browser closed successfully' with the browser closed, both handles null and
\* the log empty; a close_browser that finds this.browser null answers at once 'No
\* browser to close', not as an error, and changes nothing, which is what a second
\* close_browser after a first one finds.
C9_Close ==
  [][ /\ \A id \in StartedIds : calls'[id].name = "close_browser" => browser # 0
      /\ \A r \in NewFrames :
           r.name = "close_browser" =>
             IF Completed(r)
             THEN ~r.threw =>
                    /\ r.text = "Browser closed successfully"
                    /\ calls[r.id].p \notin running'
                    /\ browser' = 0 /\ page' = 0 /\ actions' = <<>>
             ELSE /\ browser = 0
                  /\ ~r.threw /\ r.text = "No browser to close"
                  /\ UNCHANGED <<browser, page, actions, running, launched, pageUrl>> ]_vars

\* the third call is a close_browser that found nothing to close, after a launch and a
\* close
C9_Witness ==
  /\ launched = 1 /\ running = {} /\ browser = 0 /\ page = 0 /\ actions = <<>>
  /\ \E r \in Frames(stdout) :
       r.id = 3 /\ r.name = "close_browser" /\ r.text = "No browser to close"

\* C10: every step leaves the records of the log in place, appending at most, except
\* that a step in which launch_browser or close_browser returns its success may empty
\* the log.
C10_AppendOnly ==
  [][ \/ IsPrefix(actions, actions')
      \/ /\ actions' = <<>>
         /\ \E r \in NewFrames :
              Completed(r) /\ ~r.threw /\ r.name \in {"launch_browser", "close_browser"} ]_vars

\* a record appended behind an earlier one
C10_Witness ==
  /\ Len(actions) = 2
  /\ actions[1].type = "navigate" /\ actions[2].type # "navigate"

-----------------------------------------------------------------------------
(* One prompt from plan to script *)

\* C3: once the driver's operation for an action of a prompt has thrown, processPrompt
\* has returned: no later action of the plan and no generate_test request follows it.
C3_FailureAborts ==
  \A n \in DOMAIN prompts :
    \A k \in DOMAIN prompts[n].results :
      prompts[n].results[k].threw => prompts[n].pc = "done" /\ k = Len(prompts[n].results)

\* C4: processPrompt returns success = true only if no action of its plan was answered
\* by the error envelope of an operation that threw.
C4_SuccessMeansNoError ==
  \A n \in DOMAIN prompts :
    (prompts[n].pc = "done" /\ prompts[n].returned.success) =>
      \A k \in 1..Len(prompts[n].actions) : ~prompts[n].returned.results[k].threw

\* the script processPrompt returned with its results
ScriptOf(p) == p.returned.results[Len(p.returned.results)].text

\* C5: in a run of one prompt the script returned with a non-empty plan has the line of
\* every click and fill record of the driver's log, which names the selector acted on,
\* and has no line of a plan action whose operation threw.
C5_ScriptReplaysExecuted ==
  \A n \in DOMAIN prompts :
    LET p == prompts[n] IN
    (Len(prompts) = 1 /\ p.pc = "done" /\ p.returned.success /\ p.actions # <<>>) =>
      /\ \A k \in DOMAIN actions :
           actions[k].type \in {"click", "fill"} => Contains(ScriptOf(p), actions[k].code)
      /\ \A k \in DOMAIN p.actions :
           (p.returned.results[k].threw /\ "arguments" \in DOMAIN p.actions[k]) =>
             LET line == convertActionToPlaywrightCode(p.actions[k])
             IN line = <<>> \/ ~Contains(ScriptOf(p), line[1])

-----------------------------------------------------------------------------
(* Selector resolution of click_element and fill_input (first server). *)

\* the call id of the first server is in the candidate loop of click_element or
\* fill_input
InLoop(id) ==
  /\ variant = 1
  /\ calls[id].name \in {"click_element", "fill_input"}
  /\ calls[id].pc = "candidate"

\* the site-specific selectors the source declares for a tool on a page at url
DeclaredFor(name, url) ==
  IF Contains(url, "github.com")
  THEN IF name = "click_element"
       THEN << "[data-target=\"query-builder.input\"]", "input[name=\"q\"]",
               "#query-builder-test", "input[placeholder*=\"Search\"]",
               "input[aria-label*=\"Search\"]", "button[type=\"submit\"]",
               "[data-testid=\"search-button\"]" >>
       ELSE << "[data-target=\"query-builder.input\"]", "input[name=\"q\"]",
               "#query-builder-test", "input[placeholder*=\"Search\"]",
               "input[aria-label*=\"Search\"]" >>
  ELSE IF Contains(url, "google.com") /\ name = "fill_input"
       THEN << "input[name=\"q\"]", "textarea[name=\"q\"]", "input[title=\"Search\"]" >>
       ELSE <<>>

\* C11: in the first server a click_element or fill_input call that finds a page builds
\* its candidates as the selectors declared for the site of the current page, in their
\* declared order, followed by the caller's selector; the candidates are tried in that
\* order, one at a time: a failed candidate is followed by the next one and appends
\* nothing, and the call returns at the first candidate that succeeds, with one record
\* appended that names exactly that candidate and with the later candidates untried.
C11_CandidatesInOrder ==
  [][ /\ \A id \in StartedIds :
           (variant = 1 /\ calls'[id].name \in {"click_element", "fill_input"})
           => /\ calls'[id].pc = "candidate"
              /\ calls'[id].tried
                   = DeclaredFor(calls'[id].name, pageUrl[page]) \o <<calls'[id].a1>>
              /\ calls'[id].sels = calls'[id].tried
      /\ \A id \in DOMAIN calls :
           InLoop(id)
           => LET a == calls[id]
                  n == Len(a.tried) - Len(a.sels)
              IN /\ a.sels # <<>>
                 /\ a.sels = SubSeq(a.tried, n + 1, Len(a.tried))
                 /\ \/ id \in DOMAIN calls' /\ calls'[id] = a
                    \/ /\ id \in DOMAIN calls'
                       /\ calls'[id].tried = a.tried
                       /\ calls'[id].sels = Tail(a.sels)
                       /\ (calls'[id].pc = "candidate") = (Tail(a.sels) # <<>>)
                       /\ actions' = actions
                       /\ \A r \in NewFrames : r.id # id
                    \/ /\ id \notin DOMAIN calls'
                       /\ \E r \in NewFrames :
                            /\ r.id = id
                            /\ IF r.threw THEN actions' = actions
                               ELSE /\ Len(actions') = Len(actions) + 1
                                    /\ SubSeq(actions', 1, Len(actions)) = actions
                                    /\ actions'[Len(actions')].selector = Head(a.sels)
                                    /\ actions'[Len(actions')].type
                                         = (IF a.name = "click_element" THEN "click"
                                            ELSE "fill")
                                    /\ Contains(r.text, Head(a.sels)) ]_vars

\* on a GitHub page a click_element whose first candidate failed has succeeded on the
\* second declared selector, which is not the one the caller gave
C11_Witness ==
  /\ variant = 1
  /\ \E i \in DOMAIN stdout :
       /\ stdout[i].name = "click_element"
       /\ ~stdout[i].threw
       /\ stdout[i].args = [selector |-> CallerSelector]
       /\ stdout[i].text = "Successfully clicked element: input[name=\"q\"]"
  /\ actions # <<>>
  /\ actions[Len(actions)].type = "click"
  /\ actions[Len(actions)].selector = "input[name=\"q\"]"

\* the messages a rejected or impossible page query carries
QueryErrors == {"Timeout exceeded", PlaywrightError, TypeErrorNull("$$eval")}

\* the call id of the first server has exhausted its candidates and waits for the page
\* query that collects the elements of the page
Exhausted(id) ==
  /\ variant = 1
  /\ calls[id].name \in {"click_element", "fill_input"}
  /\ calls[id].pc = "diagnose"

\* C12: in the first server a click_element or fill_input call whose every candidate
\* failed appends nothing and ends with one error; its message names the caller's
\* selector and the last failure and, unless the page query that collects the elements
\* failed itself (its message is then the last part of the error), contains every
\* selector that was tried, the message of the last failure and the serialized elements
\* collected from the page.  A call whose page was closed while its candidates were
\* tried ends in the same way, the page query failing at once.
C12_AggregatedError ==
  [][ \A id \in DOMAIN calls :
       /\ (InLoop(id) /\ id \notin DOMAIN calls'
              /\ \E r \in NewFrames : r.id = id /\ r.threw)
          => /\ page = 0
             /\ \E r \in NewFrames :
                  /\ r.id = id
                  /\ Contains(r.text, ". Could not inspect available "
                                \o (IF calls[id].name = "click_element"
                                    THEN "elements: " ELSE "inputs: ")
                                \o TypeErrorNull("$$eval"))
       /\ (Exhausted(id) /\ id \notin DOMAIN calls')
        => LET a == calls[id]
               click == a.name = "click_element"
               elements == IF click THEN ClickableElements ELSE InputElements
               head == "Error executing " \o a.name \o ": Failed to "
                       \o (IF click THEN "click element " ELSE "fill input ")
                       \o a.a1 \o ": " \o a.lastError \o ". Could not inspect available "
                       \o (IF click THEN "elements: " ELSE "inputs: ")
           IN /\ a.sels = <<>>
              /\ actions' = actions
              /\ \E r \in NewFrames :
                   /\ r.id = id /\ r.threw /\ r.kind = "result"
                   /\ StartsWith(r.text, head)
                   /\ \/ \E e \in QueryErrors : r.text = head \o e
                      \/ /\ \A i \in DOMAIN a.tried : Contains(r.text, a.tried[i])
                         /\ Contains(r.text, "Last error: " \o a.lastError)
                         /\ Contains(r.text, elements) ]_vars

\* on a GitHub page a click_element has failed on its eight candidates and its error
\* lists them, the caller's selector last, before the elements of the page
C12_Witness ==
  /\ variant = 1
  /\ \E i \in DOMAIN stdout :
       /\ stdout[i].name = "click_element"
       /\ stdout[i].threw
       /\ Contains(stdout[i].text,
                   "[data-testid=\"search-button\"], " \o CallerSelector \o ". Last error: ")
       /\ Contains(stdout[i].text, "Available clickable elements: " \o ClickableElements)

-----------------------------------------------------------------------------
(* Read-back of fill_input. *)

\* C13: a step in which fill_input returns its success appends exactly one record: a
\* fill record with an actualValue, which is the value read back from the field (the one
\* the returned text reports); and no other step appends a fill record.
C13_FillReadsBack ==
  [][ /\ \A r \in NewFrames :
           (r.name = "fill_input" /\ ~r.threw)
           => /\ Len(actions') = Len(actions) + 1
              /\ SubSeq(actions', 1, Len(actions)) = actions
              /\ LET rec == actions'[Len(actions')] IN
                   /\ rec.type = "fill"
                   /\ "actualValue" \in DOMAIN rec
                   /\ rec.actualValue \in FilledValues(rec.text)
                   /\ Contains(r.text, "(actual value: " \o rec.actualValue \o ")")
      /\ (Len(actions') > Len(actions) /\ actions'[Len(actions')].type = "fill")
           => \E r \in NewFrames : r.name = "fill_input" /\ ~r.threw ]_vars

-----------------------------------------------------------------------------
(* Strategies of github_search. *)

\* the strategies a github_search call has run when it is suspended at pc
StrategiesRun(pc) ==
  CASE pc = "strategy1" -> 1
    [] pc = "strategy2" -> 2
    [] pc = "strategy3" -> 3
    [] OTHER -> 0

\* C14: a github_search call starts with the input-fill strategy; a strategy that throws
\* is followed by the next one in the order input-fill, keyboard-shortcut, direct-url,
\* and a strategy that succeeds by the wait for the results, never by another strategy;
\* the call fails only when all three strategies have thrown; and it returns its success,
\* whether or not the results selector shows up, with exactly one record appended, which
\* names the strategy that succeeded.
C14_StrategiesInOrder ==
  [][ /\ \A id \in StartedIds :
           calls'[id].name = "github_search" => calls'[id].pc = "strategy1"
      /\ \A id \in DOMAIN calls :
           calls[id].name = "github_search"
           => LET a == calls[id]
                  k == StrategiesRun(a.pc)
              IN \/ id \in DOMAIN calls' /\ calls'[id] = a
                 \* a strategy threw: the next one runs, or all three have thrown
                 \/ /\ k \in {1, 2}
                    /\ id \in DOMAIN calls'
                    /\ StrategiesRun(calls'[id].pc) = k + 1
                    /\ actions' = actions
                 \/ /\ k = 3
                    /\ id \in DOMAIN calls' /\ calls'[id].pc = "debug"
                    /\ StartsWith(calls'[id].lastError, "All GitHub search strategies failed")
                    /\ actions' = actions
                 \* a strategy threw and the page is gone: the remaining strategies and
                 \* the catch throw at once
                 \/ /\ k \in {1, 2, 3}
                    /\ ~Alive(a.p) /\ page = 0
                    /\ id \notin DOMAIN calls'
                    /\ \E r \in NewFrames : r.id = id /\ r.threw
                    /\ actions' = actions
                 \* a strategy succeeded: no other strategy runs
                 \/ /\ k \in {1, 2, 3}
                    /\ id \in DOMAIN calls' /\ calls'[id].pc = "results"
                    /\ calls'[id].used \in (IF k = 1 THEN SearchSelectors
                                             ELSE IF k = 2 THEN {"keyboard-shortcut"}
                                             ELSE {"direct-url"})
                    /\ actions' = actions
                 \* after a success the call returns, with one record
                 \/ /\ a.pc = "results"
                    /\ id \notin DOMAIN calls'
                    /\ \E r \in NewFrames :
                         /\ r.id = id /\ ~r.threw
                         /\ Contains(r.text, "using strategy: " \o a.used)
                    /\ Len(actions') = Len(actions) + 1
                    /\ SubSeq(actions', 1, Len(actions)) = actions
                    /\ actions'[Len(actions')].type = "github_search"
                    /\ actions'[Len(actions')].strategy = a.used
                 \* after all three have thrown the call fails
                 \/ /\ a.pc = "debug"
                    /\ StartsWith(a.lastError, "All GitHub search strategies failed")
                    /\ id \notin DOMAIN calls'
                    /\ \E r \in NewFrames : r.id = id /\ r.threw
                    /\ actions' = actions ]_vars

-----------------------------------------------------------------------------
(* generate_test. *)

\* the driver's session state: its handles, its log and its pending operations
Session == <<browser, page, actions, running, launched, pageUrl, calls>>

\* C15: generate_test is answered in the step that starts it, with or without a session,
\* and leaves the handles and the log as they are; called with an arguments object it
\* does not fail, and the text it returns is the script generated from the list of
\* actions supplied in its arguments when there is one, from the log otherwise.
C15_GenerateTest ==
  [][ \A r \in NewFrames :
        r.name = "generate_test"
        => /\ Immediate(r)
           /\ Session' = Session
           /\ r.args # NoArgs
              => /\ ~r.threw
                 /\ LET actionsToUse == IF Has(r.args, "actions") THEN r.args.actions
                                        ELSE actions
                        script == generatePlaywrightTest(GetOpt(r.args, "testName"),
                                    GetOpt(r.args, "description"), actionsToUse)
                    IN r.text \in {script, "Generated Playwright test:\n\n" \o script} ]_vars

-----------------------------------------------------------------------------
(* The generated script. *)

ScriptEnd == "});\n"

\* what the script generated from the one record rec has between its header and its end
LineOf(testName, description, rec) ==
  LET script == generatePlaywrightTest(testName, description, <<rec>>)
  IN SubSeq(script, Len(TestHeader(testName, description)) + 1,
            Len(script) - Len(ScriptEnd))

RECURSIVE LinesInOrder(_, _, _)
LinesInOrder(testName, description, acts) ==
  IF acts = <<>> THEN ""
  ELSE LineOf(testName, description, Head(acts))
       \o LinesInOrder(testName, description, Tail(acts))

\* the answers of the first server to generate_test requests that supply a list
Scripts ==
  { r \in Frames(stdout) : variant = 1 /\ r.name = "generate_test" /\ Has(r.args, "actions") }

\* C16: the script generated from a list of records is the header, then what each record
\* of the list yields by itself, once per occurrence and in the order of the list, then
\* the end of the script; and two requests with the same name, description and list get
\* the same script.
C16_OrderPreserving ==
  \A r \in Scripts :
    /\ ~r.threw
    /\ r.text = TestHeader(r.args.testName, r.args.description)
                 \o LinesInOrder(r.args.testName, r.args.description, r.args.actions)
                 \o ScriptEnd
    /\ \A q \in Scripts : q.args = r.args => q.text = r.text

\* both requests are answered, for a list that holds the same click twice: the script
\* has the line twice
C16_Witness ==
  /\ variant = 1
  /\ Len(stdout) = 2
  /\ stdout[1].args.actions
       = << Action("click_element", [selector |-> CallerSelector]),
            Action("click_element", [selector |-> CallerSelector]) >>
  /\ Contains(stdout[2].text, "{\n  await page.click('#go');\n  await page.click('#go');\n});")

\* the tools that yield no line
Untranslated == { "launch_browser", "close_browser", "inspect_page", "get_page_content" }

\* C17: the script generated from a list of one record has, between its header and its
\* end: for a record that carries code, that code, indented, as it is; for an action of a
\* plan (name and arguments), the line of its tool, which embeds the arguments as they
\* are: page.goto for navigate_to, page.click for click_element, page.fill for
\* fill_input, page.waitForSelector for wait_for_element, page.screenshot for
\* take_screenshot (to screenshot.png when no filename is given); and nothing for
\* launch_browser, close_browser, inspect_page and get_page_content.
C17_TranslationTable ==
  \A r \in Scripts :
    Len(r.args.actions) = 1
    => LET rec == r.args.actions[1]
           a == rec.arguments
           body == SubSeq(r.text, Len(TestHeader(r.args.testName, r.args.description)) + 1,
                          Len(r.text) - Len(ScriptEnd))
       IN /\ "code" \in DOMAIN rec => body = "  " \o rec.code \o "\n"
          /\ ("code" \notin DOMAIN rec /\ "arguments" \in DOMAIN rec)
             => /\ rec.name = "navigate_to"
                   => body = "  await page.goto('" \o a.url \o "');\n"
                /\ rec.name = "click_element"
                   => body = "  await page.click('" \o a.selector \o "');\n"
                /\ rec.name = "fill_input"
                   => body = "  await page.fill('" \o a.selector \o "', '" \o a.text
                             \o "');\n"
                /\ rec.name = "wait_for_element"
                   => body = "  await page.waitForSelector('" \o a.selector \o "');\n"
                /\ rec.name = "take_screenshot"
                   => body = "  await page.screenshot({ path: '"
                             \o (IF "filename" \in DOMAIN a THEN a.filename
                                 ELSE "screenshot.png")
                             \o "' });\n"
                /\ rec.name \in Untranslated => body = ""

\* a list of one navigate_to action has been translated
C17_Witness ==
  /\ variant = 1
  /\ stdout # <<>>
  /\ stdout[1].args.actions = << Action("navigate_to", [url |-> OtherUrl]) >>
  /\ Contains(stdout[1].text, "{\n  await page.goto('https://x.test');\n});")

\* the quote characters of a text
QuoteCount(text) == Cardinality({k \in 1..Len(text) : SubSeq(text, k, k) = "'"})

\* the quote characters of a statement whose string literals end where the generator
\* closes them: two literals in page.fill and page.press, one in the others
StatementQuotes(line) ==
  IF Contains(line, "page.fill(") \/ Contains(line, "page.press(") THEN 4 ELSE 2

\* C18: the script generated from any name, description and list of actions is the
\* import line, one test wrapper with the page fixture, the lines of the actions and the
\* end of the wrapper, and every line of an action is a complete statement: its string
\* literals end where the generator closes them, whatever characters the arguments hold.
C18_ValidScript ==
  \A r \in Scripts :
    LET header == TestHeader(r.args.testName, r.args.description)
        acts == r.args.actions
    IN /\ r.text = header \o LinesInOrder(r.args.testName, r.args.description, acts)
                    \o ScriptEnd
       /\ QuoteCount(header) = 4
       /\ \A i \in DOMAIN acts :
            ("arguments" \in DOMAIN acts[i] /\ acts[i].name \in ToolNames)
            => LET line == LineOf(r.args.testName, r.args.description, acts[i])
               IN \/ line = ""
                  \/ /\ StartsWith(line, "  await page.")
                     /\ SubSeq(line, Len(line) - 2, Len(line)) = ");\n"
                     /\ \/ QuoteCount(line) = StatementQuotes(line)
                        \/ /\ acts[i].name = "github_search"
                           /\ QuoteCount(line) = 8

-----------------------------------------------------------------------------
(* The bridge (sendMCPRequest). *)

\* cleanup has killed the child
CleanedUp == ~serverUp /\ stderr # "none"

\* a step in which the bridge consumes no request id, writes nothing to the child and
\* registers neither a listener nor a timer
NothingSent ==
  /\ messageId' = messageId
  /\ Len(stdin') <= Len(stdin)
  /\ listeners' \subseteq listeners
  /\ timers' \subseteq timers

\* the activations that this step ends with the error of a bridge that is not connected
NotConnectedNow ==
  { n \in DOMAIN prompts' :
      /\ n \notin DOMAIN prompts \/ prompts[n].pc # "done"
      /\ prompts'[n].pc = "done"
      /\ ~prompts'[n].returned.success
      /\ Contains(prompts'[n].returned.error, "MCP server not connected") }

\* C19: as long as the startup line has not been observed, and again once cleanup has
\* killed the child, no step consumes a request id, writes to the child or registers a
\* listener or a timer, and an activation that calls the bridge ends with 'MCP server
\* not connected'; a call that ends with that error has sent nothing; and the bridge
\* becomes connected only in the step that observes the startup line.
C19_NotConnected ==
  [][ /\ (stderr # "read" \/ CleanedUp)
         => /\ NothingSent
            /\ \A n \in DOMAIN prompts' :
                 (n \notin DOMAIN prompts /\ prompts'[n].actions # <<>>)
                 => n \in NotConnectedNow
      /\ NotConnectedNow # {} => (~isConnected /\ NothingSent)
      /\ (isConnected' /\ ~isConnected) => (stderr = "pending" /\ stderr' = "read") ]_vars

\* the ids of the bridge calls that are not settled: those awaited by a processPrompt
\* activation or by a cleanup
Outstanding ==
  {prompts[n].id : n \in {k \in DOMAIN prompts : prompts[k].pc # "done"}} \cup cleaning

\* call id is settled by this step
Settles(id) ==
  \/ id \in cleaning /\ id \notin cleaning'
  \/ \E n \in DOMAIN prompts :
       prompts[n].pc # "done" /\ prompts[n].id = id /\ prompts'[n] # prompts[n]

\* C20: with two or more bridge calls outstanding, a step in which a response frame
\* reaches the bridge settles the call whose id the frame carries, with the result of
\* that frame, and settles no other call.
C20_ResponsesMatchIds ==
  [][ (stdout # <<>> /\ stdout' = Tail(stdout) /\ Cardinality(Outstanding) >= 2)
      => LET response == Head(stdout) IN
           /\ \A id \in Outstanding : Settles(id) => id = response.id
           /\ (response.id \in Outstanding /\ response.id \in listeners)
              => /\ Settles(response.id)
                 /\ \A n \in DOMAIN prompts :
                      (prompts[n].pc # "done" /\ prompts[n].id = response.id)
                      => IF prompts[n].pc = "action"
                         THEN SubSeq(prompts'[n].results, 1, Len(prompts[n].results) + 1)
                                = Append(prompts[n].results, response)
                         ELSE prompts'[n].returned
                                = Succeeded(Append(prompts[n].results, response)) ]_vars

-----------------------------------------------------------------------------
(* Timeouts and discarded frames of the bridge. *)

\* the timer of request id fires in this step
TimeoutOf(id) == id \in timers /\ timers' = timers \ {id} /\ stdout' = stdout

\* a chunk that holds the response to request id reaches the bridge in this step
ResponseTo(id) == stdout # <<>> /\ stdout' = Tail(stdout) /\ Head(stdout).id = id

\* C21: when the timer of a pending request fires, the call that awaits it fails with
\* 'MCP request timeout'; a call that failed so stays as it returned, and a response to
\* its request that arrives later changes no activation, no flag of the orchestrator,
\* nothing written to the driver and nothing sent to the client.
C21_TimeoutRejectsOnce ==
  [][ /\ \A id \in timers \ cleaning :
           TimeoutOf(id) =>
             \A n \in Awaiting(id) :
               /\ prompts'[n].pc = "done" /\ ~prompts'[n].returned.success
               /\ prompts'[n].returned.error = Rejection(prompts[n], "MCP request timeout")
      /\ \A n \in DOMAIN prompts :
           TimedOut(n) =>
             /\ prompts'[n] = prompts[n]
             /\ ResponseTo(prompts[n].id) =>
                  UNCHANGED <<prompts, isConnected, browserLaunched, stdin, messageId,
                              wsOut>> ]_vars

\* a response to the request of a call that timed out has reached the bridge
C21_Witness ==
  \E n \in DOMAIN prompts :
    TimedOut(n) /\ serverUp /\ prompts[n].id \notin listeners

\* C22: in the step in which the timer of a request fires, the data listener of that
\* request is removed, and the listeners registered after the step are as many as the
\* calls that are not settled.
C22_TimeoutRemovesListener ==
  [][ \A id \in timers :
        TimeoutOf(id) =>
          /\ id \notin listeners'
          /\ Cardinality(listeners') = Cardinality(Outstanding') ]_vars

\* C23: a step in which a chunk reaches the bridge and the response it holds is for no
\* unsettled call changes no activation, no cleanup, no flag of the orchestrator and
\* nothing written to the driver or sent to the client, and every unsettled call keeps
\* its timer and its listener; and a chunk of any kind leaves the calls it does not
\* answer, their timers and their listeners as they were.
C23_DiscardedFrames ==
  [][ (stdout # <<>> /\ stdout' = Tail(stdout)) =>
        LET response == Head(stdout) IN
        /\ response.id \notin Outstanding =>
             UNCHANGED <<prompts, cleaning, isConnected, browserLaunched, serverUp, stdin,
                         messageId, wsOut>>
        /\ \A id \in Outstanding \ {response.id} :
             /\ id \in timers <=> id \in timers'
             /\ id \in listeners <=> id \in listeners'
             /\ \A n \in Awaiting(id) : prompts'[n] = prompts[n] ]_vars

\* the response to a request that had timed out was discarded while a later request of
\* another call was pending, and that call has returned with its response
C23_Witness ==
  \E a \in DOMAIN prompts : \E b \in DOMAIN prompts :
    /\ TimedOut(a) /\ serverUp /\ prompts[a].id \notin listeners
    /\ prompts[b].pc = "done" /\ prompts[b].returned.success
    /\ Len(prompts[b].results) = 1
    /\ prompts[b].results[1].id < prompts[a].id
    /\ prompts[a].id < prompts[b].id

\* C24: the step in which the timer of a request awaited by processPrompt fires leaves
\* the bridge connected and the child running, writes nothing, and changes no activation
\* but the one that awaits that request; after timeouts a bridge whose child runs is
\* connected; a call made then is sent to the driver; and an activation that gains a
\* result gains the response of the chunk read in that step, which carries the id of the
\* request it awaits.
C24_TimeoutIsCallLevel ==
  [][ /\ \A id \in timers \ cleaning :
           TimeoutOf(id) =>
             /\ UNCHANGED <<isConnected, serverUp, browserLaunched, stdin, messageId, listeners>>
             /\ \A n \in DOMAIN prompts : prompts[n].id # id => prompts'[n] = prompts[n]
      /\ ((\E n \in DOMAIN prompts : TimedOut(n)) /\ serverUp) => isConnected
      /\ \A n \in DOMAIN prompts' \ DOMAIN prompts :
           ((\E a \in DOMAIN prompts : TimedOut(a)) /\ serverUp /\ prompts'[n].actions # <<>>)
           => /\ prompts'[n].pc = "action" /\ prompts'[n].id = messageId'
              /\ messageId' \in listeners' /\ messageId' \in timers'
              /\ stdin' = Append(stdin, [id |-> messageId', name |-> prompts'[n].actions[1].name,
                                          args |-> ArgumentsOf(prompts'[n].actions[1])])
      /\ \A n \in DOMAIN prompts :
           LET p == prompts[n]
               q == prompts'[n]
               now == IF q.pc = "done" /\ q.returned.success THEN q.returned.results
                      ELSE q.results
           IN (p.pc # "done" /\ Len(now) > Len(p.results)) =>
                /\ stdout # <<>> /\ stdout' = Tail(stdout)
                /\ Head(stdout).id = p.id
                /\ now = Append(p.results, Head(stdout)) ]_vars

\* a call made after the timeout of an earlier call has returned with the responses to
\* its requests
C24_Witness ==
  \E a \in DOMAIN prompts : \E b \in DOMAIN prompts :
    /\ TimedOut(a) /\ isConnected
    /\ prompts[b].afterTimeout
    /\ prompts[b].pc = "done" /\ prompts[b].returned.success
    /\ Len(prompts[b].returned.results) = 2

-----------------------------------------------------------------------------
(* One call of processPrompt. *)

\* result is the driver's answer to a request for action
AnswersAction(result, action) ==
  result.name = NameOf(action) /\ result.args = ArgumentsOf(action)

\* the request that this step writes to the driver for activation n, if any
Written(n) ==
  IF /\ Len(stdin') = Len(stdin) + 1
     /\ stdin'[Len(stdin')].id = prompts'[n].id
     /\ prompts'[n].pc # "done"
  THEN <<stdin'[Len(stdin')]>> ELSE <<>>

\* C25: an activation of processPrompt that waits for the answer to action i has the
\* answers to actions 1..i-1, in plan order, as its results; one that waits for the
\* generated test has a plan that is not empty and one answer per action; a request it
\* writes is for the action that follows the answers received, or for generate_test
\* when every action is answered; and what it returns on success is those answers
\* followed, for a plan that is not empty, by the answer to generate_test.
C25_PlanOrder ==
  [][ \A n \in DOMAIN prompts' :
        LET p == prompts'[n] IN
        /\ p.pc = "action" =>
             /\ p.i \in 1..Len(p.actions) /\ Len(p.results) = p.i - 1
             /\ \A k \in 1..Len(p.results) : AnswersAction(p.results[k], p.actions[k])
        /\ p.pc = "test" =>
             /\ p.actions # <<>> /\ Len(p.results) = Len(p.actions)
             /\ \A k \in 1..Len(p.results) : AnswersAction(p.results[k], p.actions[k])
        /\ \A k \in 1..Len(Written(n)) :
             LET request == Written(n)[k] IN
             IF p.pc = "action"
             THEN /\ request.name = NameOf(p.actions[p.i])
                  /\ request.args = ArgumentsOf(p.actions[p.i])
             ELSE /\ request.name = "generate_test"
                  /\ request.args.actions = p.actions
        /\ (p.pc = "done" /\ p.returned.success) =>
             LET results == p.returned.results IN
             IF p.actions = <<>> THEN results = <<>>
             ELSE /\ Len(results) = Len(p.actions) + 1
                  /\ \A k \in 1..Len(p.actions) : AnswersAction(results[k], p.actions[k])
                  /\ results[Len(results)].name = "generate_test" ]_vars

\* a plan of three actions was carried out and the call returned its four results
C25_Witness ==
  \E n \in DOMAIN prompts :
    /\ prompts[n].pc = "done" /\ prompts[n].returned.success
    /\ Len(prompts[n].actions) = 3
    /\ Len(prompts[n].returned.results) = 4

-----------------------------------------------------------------------------
(* Operations of one session that overlap. *)

\* the calls the driver has started and not finished: each is suspended in a
\* Playwright call on the session's browser or page
InProgress == DOMAIN calls

\* C26: at no time are two operations running against the same session: over every
\* run of the web server, with prompts that arrive over HTTP and over the WebSocket
\* and with requests that time out, at most one call is in progress in the driver.
C26_NoConcurrentOperations == Cardinality(InProgress) <= 1

-----------------------------------------------------------------------------
(* A planning answer that is not an action array. *)

\* an element of the plan that names a tool
IsAction(element) == "name" \in DOMAIN element

\* the planning answer of activation p parsed as an array of actions
ActionArray(p) ==
  p.answer = "array" /\ \A k \in 1..Len(p.actions) : IsAction(p.actions[k])

\* C27: when the planning output cannot be parsed as an action array, processPrompt
\* fails for that prompt only: in the step that makes the call it returns success=false
\* with the parse error, writes no request to the driver, and leaves the connection,
\* the browserLaunched flag and the driver's state unchanged.
C27_UnparsablePlanFailsCleanly ==
  [][\A n \in DOMAIN prompts' \ DOMAIN prompts :
       ~ActionArray(prompts'[n]) =>
         /\ prompts'[n].pc = "done"
         /\ ~prompts'[n].returned.success
         /\ StartsWith(prompts'[n].returned.error, "Failed to parse AI response")
         /\ UNCHANGED <<stdin, messageId, isConnected, browserLaunched, driverVars>>]_vars

-----------------------------------------------------------------------------
(* What a successful processPrompt hands back. *)

\* the activations that returned success on a plan that is not empty
SucceededOnPlan ==
  { n \in DOMAIN prompts :
      /\ prompts[n].pc = "done" /\ prompts[n].returned.success
      /\ Len(prompts[n].actions) > 0 }

\* C28: when processPrompt succeeds on a plan of n > 0 actions, its results list has
\* n + 1 entries: entry i is the driver's result for action i and the last entry is the
\* answer to generate_test, whose text starts with the line importing test and expect
\* (first server).
C28_ResultsOfSuccess ==
  variant = 1 =>
    \A n \in SucceededOnPlan :
      LET p == prompts[n]
          results == p.returned.results
          last == results[Len(results)]
      IN /\ Len(results) = Len(p.actions) + 1
         /\ \A k \in 1..Len(p.actions) : AnswersAction(results[k], p.actions[k])
         /\ last.name = "generate_test"
         /\ last.kind = "result"
         /\ StartsWith(last.text, ImportLine)

\* a call on a plan of three actions has returned success from the first server
C28_Witness ==
  /\ variant = 1
  /\ \E n \in SucceededOnPlan :
       /\ Len(prompts[n].actions) = 3
       /\ Len(prompts[n].returned.results) = 4

-----------------------------------------------------------------------------
(* Progress notifications on the WebSocket. *)

\* the messages the client has received about activation n, in order
MessagesOf(n) == SelectSeq(wsOut, LAMBDA message : message.prompt = n)

\* one notification per action of activation n completed so far, in order, then the
\* result once the call has returned
ExpectedMessages(n) ==
  [i \in 1..Len(prompts[n].results) |->
     [type |-> "action-executed", prompt |-> n, action |-> i]]
  \o (IF prompts[n].pc = "done" THEN <<[type |-> "result", prompt |-> n]>> ELSE <<>>)

\* C29: for every prompt processed over the WebSocket, the first of a session or a
\* later one, the client has received exactly one action-executed notification per
\* action completed, in completion order, and after them the result message.
C29_OneNotificationPerAction ==
  \A n \in DOMAIN prompts :
    prompts[n].ws => MessagesOf(n) = ExpectedMessages(n)

-----------------------------------------------------------------------------
(* Calls whose arguments do not conform to the tool's input schema. *)

\* the required properties of the input schemas (lines 57, 76, 94, 113, 150, 195)
RequiredOf(name) ==
  CASE name = "navigate_to" -> {"url"}
    [] name = "click_element" -> {"selector"}
    [] name = "fill_input" -> {"selector", "text"}
    [] name = "wait_for_element" -> {"selector"}
    [] name = "github_search" -> {"query"}
    [] name = "generate_test" -> {"testName"}
    [] OTHER -> {}

\* a required argument is missing from args
ViolatesSchema(name, args) == \E k \in RequiredOf(name) : ~Has(args, k)

\* C30: a tool call with a required argument missing is rejected before its operation
\* is dispatched: the driver never has such a call in progress (no browser action is
\* made for it), and no step that such a call takes appends a record.
C30_SchemaChecked ==
  [][/\ \A id \in DOMAIN calls' : ~ViolatesSchema(calls'[id].name, calls'[id].args)
     /\ \A id \in DOMAIN calls :
          (/\ ViolatesSchema(calls[id].name, calls[id].args)
           /\ (id \notin DOMAIN calls' \/ calls'[id] # calls[id])) => actions' = actions]_vars

-----------------------------------------------------------------------------
(* The shutdown of the worker. *)

\* this step terminates the child process
Terminates == serverUp /\ ~serverUp'

\* C31: cleanup terminates the child only after the close_browser call it made when
\* the browser was recorded as launched has settled, and once the child is terminated
\* the bridge is not connected and browserLaunched is false.
C31_Shutdown ==
  [][ /\ (Terminates /\ browserLaunched) => (cleaning' # cleaning /\ cleaning' \subseteq cleaning)
      /\ CleanedUp' => (~isConnected' /\ ~browserLaunched') ]_vars

-----------------------------------------------------------------------------
(* Request ids. *)

\* the ids that the bridge, the pipe and the driver hold: of listeners, timers, calls
\* awaited, frames in flight and calls in progress
IdsInUse ==
  listeners \cup timers \cup cleaning \cup DOMAIN calls
  \cup ({prompts[n].id : n \in DOMAIN prompts} \ {0})
  \cup {stdin[k].id : k \in DOMAIN stdin} \cup {stdout[k].id : k \in DOMAIN stdout}

\* C32: the ids that one bridge instance assigns start at 1, increase by one with every
\* call and are never reused: every id held anywhere is between 1 and the last id
\* assigned, and an id that appears in a step is the next id, above all ids assigned
\* before, whether those calls are outstanding, settled or timed out.
C32_IdsIncrease ==
  [][ /\ messageId' \in {messageId, messageId + 1}
      /\ \A id \in IdsInUse : 1 <= id /\ id <= messageId
      /\ \A id \in IdsInUse' \ IdsInUse : id = messageId + 1 /\ messageId' = id ]_vars

\* three ids have been assigned: one call has timed out and another is outstanding
C32_Witness ==
  /\ messageId >= 3
  /\ \E n \in DOMAIN prompts : TimedOut(n)
  /\ \E n \in DOMAIN prompts : prompts[n].pc # "done" /\ prompts[n].id = messageId

-----------------------------------------------------------------------------
(* The page query of click_element and fill_input fails. *)

\* the errors a candidate can fail with
SelectorErrors == {"Timeout exceeded", PlaywrightError, TypeErrorNull("waitForSelector")}

\* the text of an error envelope that names the tool, the caller's selector, the last
\* selector failure and the failure of the page query
CombinedText(name, selector, lastError, evalError) ==
  "Error executing " \o name \o ": Failed to "
  \o (IF name = "click_element" THEN "click element " ELSE "fill input ")
  \o selector \o ": " \o lastError \o ". Could not inspect available "
  \o (IF name = "click_element" THEN "elements: " ELSE "inputs: ") \o evalError

\* C33: in the first server, when the page query made after every candidate failed
\* fails itself (or cannot be made, the page being gone), click_element and fill_input
\* end with one error envelope whose message is the combined error: it names the
\* caller's selector, the last selector failure and the failure of the page query, and
\* nothing else leaves the operation.
C33_DiagnosticsFailed ==
  [][ \A id \in DOMAIN calls :
        LET a == calls[id]
            lasts == IF a.pc = "diagnose" THEN {a.lastError} ELSE SelectorErrors
            combined == { CombinedText(a.name, a.a1, last, e) :
                            last \in lasts, e \in QueryErrors }
            resolved == CombinedText(a.name, a.a1, a.lastError,
                          IF a.name = "click_element"
                          THEN ClickExhausted(a.tried, a.lastError, ClickableElements)
                          ELSE FillExhausted(a.tried, a.lastError, InputElements))
        IN ( /\ InLoop(id) \/ Exhausted(id)
             /\ id \notin DOMAIN calls'
             /\ \E r \in NewFrames : r.id = id /\ r.threw )
           => /\ \A r \in NewFrames :
                   r.id = id =>
                     /\ r.kind = "result" /\ r.threw
                     /\ r.text \in combined \cup {resolved}
                     /\ (a.pc = "candidate" \/ ~Alive(a.p)) => r.text \in combined
              /\ \A r1, r2 \in NewFrames : (r1.id = id /\ r2.id = id) => r1 = r2 ]_vars

\* a fill_input call has ended with the combined error of a candidate that timed out
\* and a page query that timed out
C33_Witness ==
  /\ variant = 1
  /\ \E i \in DOMAIN stdout :
       stdout[i].text = CombinedText("fill_input", CallerSelector, "Timeout exceeded",
                                     "Timeout exceeded")

-----------------------------------------------------------------------------
(* Totality of the generator's translation. *)

\* the tools that the translation turns into a statement
Translated ==
  { "navigate_to", "click_element", "fill_input", "wait_for_element", "take_screenshot",
    "github_search" }

\* C34: the translation is total over the records of a plan: the script generated from
\* a list of one record that carries a tool name has, between its header and its end,
\* a statement for a tool that is translated, nothing for launch_browser, close_browser,
\* inspect_page and get_page_content, and the comment '// Unsupported action: <name>'
\* for any other name, whether or not the record has an arguments object.
C34_TranslationTotal ==
  \A r \in Scripts :
    (Len(r.args.actions) = 1 /\ "code" \notin DOMAIN r.args.actions[1])
    => LET rec == r.args.actions[1]
           body == SubSeq(r.text, Len(TestHeader(r.args.testName, r.args.description)) + 1,
                          Len(r.text) - Len(ScriptEnd))
       IN /\ rec.name \in Translated => StartsWith(body, "  await page.")
          /\ rec.name \in Untranslated => body = ""
          /\ rec.name \notin Translated \cup Untranslated
             => body = "  // Unsupported action: " \o rec.name \o "\n"

-----------------------------------------------------------------------------
(* Response frames and data events. *)

\* this step delivers the oldest response frame to the bridge, in one data event or
\* split over several
Delivered == stdout # <<>> /\ stdout' = Tail(stdout)

\* C35: every complete response frame that reaches the bridge while its request is
\* outstanding settles that request, however the bytes are split into data events.
C35_FramesSettle ==
  [][(Delivered /\ Head(stdout).id \in Outstanding) => Settles(Head(stdout).id)]_vars

-----------------------------------------------------------------------------
(* The action log and the changes made to the page. *)

\* the tools whose success appends a record
Recording ==
  { "navigate_to", "click_element", "fill_input", "wait_for_element", "take_screenshot",
    "github_search" }

\* the log has one record more
GrowsByOne == Len(actions') = Len(actions) + 1 /\ SubSeq(actions', 1, Len(actions)) = actions

\* C36: the log grows by exactly one record when and only when a navigate_to,
\* click_element, fill_input, wait_for_element, take_screenshot or github_search call
\* returns success; a call that returns an error, and every inspect_page,
\* get_page_content and generate_test call, leaves the log unchanged; and a call that
\* changed a field of the page appends a record before it ends.
C36_LogAndPage ==
  [][ /\ \A r \in NewFrames :
           /\ (r.name \in Recording /\ ~r.threw) => GrowsByOne
           /\ (r.threw \/ r.name \in {"inspect_page", "get_page_content", "generate_test"})
              => actions' = actions
      /\ Len(actions') > Len(actions)
         => GrowsByOne /\ \E r \in NewFrames : r.name \in Recording /\ ~r.threw
      /\ \A id \in DOMAIN calls \ DOMAIN calls' :
           calls[id].touched => GrowsByOne ]_vars

-----------------------------------------------------------------------------
(* The page query of click_element and fill_input resolves. *)

\* how the aggregated error of tool name starts once the handler has wrapped it
AggregatedStart(name) ==
  "Error executing " \o name \o ": Failed to "
  \o (IF name = "click_element" THEN "click element" ELSE "fill input")
  \o " with any selector"

\* C37: in the first server, when the page query made after every candidate failed
\* resolves (the answer carries the elements it collected), the error that leaves
\* click_element or fill_input is the aggregated error itself: it starts with 'Failed
\* to click element with any selector' (resp. 'Failed to fill input with any selector')
\* and has no 'Could not inspect available' part.
C37_AggregatedUnwrapped ==
  [][ \A id \in DOMAIN calls \ DOMAIN calls' :
        Exhausted(id) =>
          \A r \in NewFrames :
            ( /\ r.id = id
              /\ Contains(r.text, IF r.name = "click_element" THEN ClickableElements
                                  ELSE InputElements) )
            => /\ StartsWith(r.text, AggregatedStart(r.name))
               /\ ~Contains(r.text, "Could not inspect available") ]_vars

-----------------------------------------------------------------------------
(* The orchestrator's picture of the session. *)

\* nothing is in progress: every prompt and cleanup has returned, the pipe is empty and
\* the driver runs no call
Quiet ==
  /\ \A n \in DOMAIN prompts : prompts[n].pc = "done"
  /\ cleaning = {}
  /\ stdin = <<>> /\ stdout = <<>>
  /\ calls = <<>>

\* C38: whenever nothing is in progress, after any executed actions, timeouts and
\* prompts, browserLaunched is true exactly when the driver holds a browser, so the
\* session status given to the planner is accurate.
C38_FlagMirrorsDriver == Quiet => (browserLaunched <=> browser # 0)

-----------------------------------------------------------------------------
(* The browser handle and the page handle. *)

\* C39: in the first server, whenever no operation is in progress, the browser handle
\* and the page handle are both set or both unset, also after a launch_browser or
\* close_browser call that failed part-way.
C39_HandlesTogether == (variant = 1 /\ calls = <<>>) => (browser = 0 <=> page = 0)

-----------------------------------------------------------------------------
(* The time a click_element call spends waiting for its candidates. *)

\* the timeout of a bridge call, in milliseconds (setTimeout(..., 30000))
RequestTimeout == 30000

\* the timeout the caller of click_element gave, 30000 ms when it gave none
CallerTimeout(timeout) == IF timeout = undefined THEN 30000 ELSE timeout

\* C40: the total time a click_element call of the first server has waited for its
\* candidates stays below the caller's timeout and below the timeout of the bridge call.
C40_ClickWaitsBelowTimeout ==
  \A id \in DOMAIN calls :
    (variant = 1 /\ calls[id].name = "click_element") =>
      /\ calls[id].waited < CallerTimeout(calls[id].a2)
      /\ calls[id].waited < RequestTimeout

=============================================================================
